---- MODULE Spec2Model ----
(***************************************************************************)
(* A model of the order validator (database/validators.py), the Oracle     *)
(* access layer under it (database/connection.py) and the Flask handlers   *)
(* that sit in front of the services (app.py).                             *)
(*                                                                         *)
(* Python strings whose characters matter (values read from the database,  *)
(* request fields) are sequences of one-character strings, so that strip() *)
(* and upper() are computed.  Column names are TLA+ strings; lower() on    *)
(* them is a table over the names that occur.                              *)
(***************************************************************************)
EXTENDS Integers, Sequences, FiniteSets, TLC

VARIABLES
  exclude_from_validation, \* OrderValidator.exclude_from_validation
  configured,              \* the exclusion list last given to the validator
  call,                    \* the last call made on the validator
  outcome,                 \* how that call ended: a return value or an exception
  db_reply,                \* what the database did during that call
  select_calls,            \* the execute_select calls made during that call
  sql_log,                 \* the statements the cursor executed during that call
  open_connections,        \* connections opened and not closed
  open_cursors,            \* cursors opened and not closed
  phase,                   \* "boot" before create_app has run, then "serving"
  handles,                 \* the service handles create_app leaves behind
  request,                 \* the last HTTP request
  response,                \* the answer to it
  downstream,              \* the service calls made while handling it
  download_files,          \* app.py's dictionary of reports awaiting download
  files,                   \* the report files present on disk
  issued,                  \* how many download ids uuid4 has handed out
  now,                     \* the wall clock, in ticks
  threads,                 \* requests being served statement by statement
  unit                     \* a call made on a service outside the handlers

validator_vars ==
  << exclude_from_validation, configured, call, outcome, db_reply,
     select_calls, sql_log, open_connections, open_cursors >>

app_vars == << phase, handles, request, response, downstream >>

download_vars == << download_files, files, issued, now, threads >>

side_vars == << download_vars, unit >>

vars == << validator_vars, app_vars, side_vars >>

\* ------------------------------------------------------------------------
\* Bounds of the model
\* ------------------------------------------------------------------------

\* number of columns of the SELECT list that a modelled row carries
NumCols == 3

\* index in the SELECT list of the first modelled column
FirstCol == 7

\* ------------------------------------------------------------------------
\* Python strings
\* ------------------------------------------------------------------------

\* characters str.strip() removes
Whitespace == {" ", "\t"}

RECURSIVE LStrip(_)
LStrip(s) ==
  IF s = <<>> THEN s
  ELSE IF Head(s) \in Whitespace THEN LStrip(Tail(s)) ELSE s

RECURSIVE RStrip(_)
RStrip(s) ==
  IF s = <<>> THEN s
  ELSE IF s[Len(s)] \in Whitespace THEN RStrip(SubSeq(s, 1, Len(s) - 1)) ELSE s

\* str.strip()
Strip(s) == RStrip(LStrip(s))

\* str.upper() on one character (or on a token that stands for a word)
UpperChar(c) ==
  CASE c = "n" -> "N"
    [] c = "y" -> "Y"
    [] c = "sec-1" -> "SEC-1"
    [] OTHER -> c

\* str.upper()
Upper(s) == [i \in 1..Len(s) |-> UpperChar(s[i])]

\* str.lower() on a column name
Lower(name) ==
  CASE name = "ORDER_ID" -> "order_id"
    [] name = "ORDER_NUMBER" -> "order_number"
    [] name = "CUSTOMER_ID" -> "customer_id"
    [] name = "ORDER_DATE" -> "order_date"
    [] name = "DELIVERY_ADDRESS" -> "delivery_address"
    [] name = "ORDER_STATUS" -> "order_status"
    [] name = "TOTAL_AMOUNT" -> "total_amount"
    [] name = "LOCATION_CODE" -> "location_code"
    [] name = "CREATED_DATE" -> "created_date"
    [] name = "Created_Date" -> "created_date"
    [] name = "UPDATED_DATE" -> "updated_date"
    [] name = "CUSTOMER_NAME" -> "customer_name"
    [] name = "Customer_Name" -> "customer_name"
    [] name = "CUSTOMER_EMAIL" -> "customer_email"
    [] name = "CUSTOMER_PHONE" -> "customer_phone"
    [] OTHER -> name

\* ------------------------------------------------------------------------
\* Values a column can hold.  text is what str(value) yields.
\* ------------------------------------------------------------------------

PyNone == [kind |-> "none", text |-> <<"N", "o", "n", "e">>]
PyStr(s) == [kind |-> "str", text |-> s]
PyNum(digits) == [kind |-> "num", text |-> digits]

\* str(value)
Str(value) == value.text

\* truth value of a JSON value
Truthy(value) ==
  /\ value.kind # "none"
  /\ value.kind = "str" => value.text # <<>>
  /\ value.kind = "num" => value.text # <<"0">>

\* the values the modelled database stores in a column
ColumnValues ==
  { PyNone, PyStr(<<" ">>), PyStr(<<"x", " ">>), PyNum(<<"0">>) }

\* ------------------------------------------------------------------------
\* Python dicts: insertion-ordered sequences of <<key, value>> pairs
\* ------------------------------------------------------------------------

Keys(d) == [i \in 1..Len(d) |-> d[i][1]]

HasKey(d, k) == \E i \in 1..Len(d) : d[i][1] = k

\* d[k], or d.get(k) which is None for an absent key
Get(d, k) ==
  IF HasKey(d, k) THEN d[CHOOSE i \in 1..Len(d) : d[i][1] = k][2] ELSE PyNone

\* d.get(k, default)
GetOr(d, k, default) == IF HasKey(d, k) THEN Get(d, k) ELSE default

\* d[k] = v: an existing key keeps its position
Put(d, k, v) ==
  IF HasKey(d, k)
  THEN [i \in 1..Len(d) |-> IF d[i][1] = k THEN <<k, v>> ELSE d[i]]
  ELSE Append(d, <<k, v>>)

\* ------------------------------------------------------------------------
\* database/connection.py
\* ------------------------------------------------------------------------

\* the SELECT list of the order query, as Oracle names the columns
SelectColumns ==
  << "ORDER_ID", "ORDER_NUMBER", "CUSTOMER_ID", "ORDER_DATE",
     "DELIVERY_ADDRESS", "ORDER_STATUS", "TOTAL_AMOUNT", "LOCATION_CODE",
     "CREATED_DATE", "UPDATED_DATE", "CUSTOMER_NAME", "CUSTOMER_EMAIL",
     "CUSTOMER_PHONE" >>

\* the order query: its SELECT list and its WHERE clause, each condition
\* comparing a column with a bind placeholder
OrderQuery ==
  [ select |-> SelectColumns,
    where |-> << [column |-> "order_number", bind |-> "order_number"],
                 [column |-> "location_code", bind |-> "location_code"] >> ]

Min(a, b) == IF a < b THEN a ELSE b

RECURSIVE Flatten(_)
Flatten(seqs) == IF seqs = <<>> THEN <<>> ELSE Head(seqs) \o Flatten(Tail(seqs))

\* cursor.description of the modelled part of the row
CursorDescription ==
  SubSeq(SelectColumns, FirstCol, Min(FirstCol + NumCols - 1, Len(SelectColumns)))

\* the row tuples the modelled database can hold
Rows == [1..Len(CursorDescription) -> ColumnValues]

NullRow == [i \in 1..Len(CursorDescription) |-> PyNone]
FullRow == [i \in 1..Len(CursorDescription) |-> PyStr(<<"x", " ">>)]

\* where a database call can fail
FailStages == {"connect", "cursor", "execute", "description", "fetch"}

\* what the database does on one execute_select call
DbBehaviours ==
  [fail : FailStages, rows : {<<>>}]
    \cup [fail : {"none"},
          rows : {<<>>} \cup {<<r>> : r \in Rows}
                   \cup {<<FullRow, NullRow>>, <<NullRow, FullRow>>}]

\* the message of the exception a failing stage raises
DbError(stage) == <<"oracledb", stage>>

RECURSIVE RowDictFrom(_, _, _, _)
RowDictFrom(columns, row, i, row_dict) ==
  IF i > Len(row) THEN row_dict
  ELSE RowDictFrom(columns, row, i + 1, Put(row_dict, columns[i], row[i]))

\* one row as a dict keyed by the lower-cased column names
RowDict(columns, row) == RowDictFrom(columns, row, 1, <<>>)

\* execute_select whose cleanup runs on the success path only
ExecuteSelectClosesOnSuccess(query, params, db) ==
  LET connection == db.fail # "connect"
      cursor == connection /\ db.fail # "cursor"
      columns == [i \in 1..Len(CursorDescription) |-> Lower(CursorDescription[i])]
      ok == db.fail = "none"
  IN [ raised |-> ~ok,
       exc |-> IF ok THEN <<>> ELSE DbError(db.fail),
       result |-> IF ok
                  THEN [r \in 1..Len(db.rows) |-> RowDict(columns, db.rows[r])]
                  ELSE <<>>,
       statements |-> IF cursor
                      THEN << [query |-> query,
                               params |-> IF params # <<>> THEN params ELSE <<>>] >>
                      ELSE <<>>,
       connections_opened |-> IF connection THEN 1 ELSE 0,
       connections_closed |-> IF connection /\ ok THEN 1 ELSE 0,
       cursors_opened |-> IF cursor THEN 1 ELSE 0,
       cursors_closed |-> IF cursor /\ ok THEN 1 ELSE 0 ]

\* execute_select: the result or the exception, the statements the cursor
\* executed, and the connections and cursors opened and closed
ExecuteSelect(query, params, db) ==
  LET connection == db.fail # "connect"
      cursor == connection /\ db.fail # "cursor"
      columns == [i \in 1..Len(CursorDescription) |-> Lower(CursorDescription[i])]
      ok == db.fail = "none"
  IN [ raised |-> ~ok,
       exc |-> IF ok THEN <<>> ELSE DbError(db.fail),
       result |-> IF ok
                  THEN [r \in 1..Len(db.rows) |-> RowDict(columns, db.rows[r])]
                  ELSE <<>>,
       statements |-> IF cursor
                      THEN << [query |-> query,
                               params |-> IF params # <<>> THEN params ELSE <<>>] >>
                      ELSE <<>>,
       connections_opened |-> IF connection THEN 1 ELSE 0,
       connections_closed |-> IF connection THEN 1 ELSE 0,
       cursors_opened |-> IF cursor THEN 1 ELSE 0,
       cursors_closed |-> IF cursor THEN 1 ELSE 0 ]

\* ------------------------------------------------------------------------
\* database/validators.py
\* ------------------------------------------------------------------------

\* OrderValidator.__init__
DefaultExcluded ==
  << "created_date", "updated_date", "internal_notes", "customer_email",
     "customer_phone" >>

IsMandatoryCaseSensitive(field, exclude) ==
  \A i \in 1..Len(exclude) : field # exclude[i]

\* field.lower() not in [f.lower() for f in self.exclude_from_validation]
IsMandatory(field, exclude) ==
  \A i \in 1..Len(exclude) : Lower(field) # Lower(exclude[i])

HasValueTruthy(value) ==
  value.kind # "none" /\ value.text # <<"0">> /\ Strip(Str(value)) # <<>>

\* value is not None and str(value).strip() != ''
HasValue(value) == value.kind # "none" /\ Strip(Str(value)) # <<>>

\* value is None or str(value).strip() == ''
IsEmpty(value) == value.kind = "none" \/ Strip(Str(value)) = <<>>

FieldIsValidAlways(value, is_mandatory) == HasValue(value)

\* the validity recorded for one field
FieldIsValid(value, is_mandatory) ==
  IF is_mandatory THEN HasValue(value) ELSE TRUE

NoMessage == <<>>

AddMissingFirst(missing_fields, field) == <<field>> \o missing_fields

\* missing_fields.append(field)
AddMissing(missing_fields, field) == Append(missing_fields, field)

RequiredMessage(field) == <<"Required field", field, "is missing or empty">>

\* the loop over all_fields
RECURSIVE FieldLoop(_, _, _, _, _)
FieldLoop(order_data, all_fields, exclude, i, acc) ==
  IF i > Len(all_fields) THEN acc
  ELSE
    LET field == all_fields[i]
        value == Get(order_data, field)
        is_mandatory == IsMandatory(field, exclude)
        is_valid == FieldIsValid(value, is_mandatory)
    IN FieldLoop(order_data, all_fields, exclude, i + 1,
         [ missing_fields |->
             IF is_mandatory /\ ~is_valid
             THEN AddMissing(acc.missing_fields, field)
             ELSE acc.missing_fields,
           field_status |->
             Put(acc.field_status, field,
                 [ value |-> value, is_valid |-> is_valid,
                   is_mandatory |-> is_mandatory, is_empty |-> IsEmpty(value) ]),
           mandatory_field_results |->
             Append(acc.mandatory_field_results,
                 [ field_name |-> field, field_value |-> value,
                   is_valid |-> is_valid, is_mandatory |-> is_mandatory,
                   error_message |->
                     IF is_valid THEN NoMessage ELSE RequiredMessage(field) ]) ])

\* round(x, 1) of the fraction num/den, in tenths: the nearest integer to
\* 10 * num / den, a tie going to the even one
RoundTenths(num, den) ==
  LET q == (10 * num) \div den
      r == (10 * num) % den
  IN IF 2 * r < den THEN q
     ELSE IF 2 * r > den THEN q + 1
     ELSE IF q % 2 = 0 THEN q ELSE q + 1

CompletionPercentageTruncated(filled_mandatory, mandatory_count) ==
  IF mandatory_count > 0
  THEN (filled_mandatory * 1000) \div mandatory_count
  ELSE 1000

\* completion_percentage, in tenths of a percent
CompletionPercentage(filled_mandatory, mandatory_count) ==
  IF mandatory_count > 0
  THEN RoundTenths(filled_mandatory * 100, mandatory_count)
  ELSE RoundTenths(100, 1)

\* the result for an order that is not in the database
NotFoundResult(order_number, location_code) ==
  [ success |-> FALSE, order_number |-> order_number,
    location_code |-> location_code,
    error |-> <<"Order not found in database">> ]

\* the result of the except clause
ErrorResult(order_number, location_code, exc) ==
  [ success |-> FALSE, order_number |-> order_number,
    location_code |-> location_code,
    error |-> <<"Validation failed: ">> \o exc ]

\* the validation of the first row returned
FoundResult(order_number, location_code, order_data, exclude) ==
  LET all_fields == Keys(order_data)
      mandatory_fields ==
        SelectSeq(all_fields, LAMBDA f : IsMandatory(f, exclude))
      loop == FieldLoop(order_data, all_fields, exclude, 1,
                [ missing_fields |-> <<>>, field_status |-> <<>>,
                  mandatory_field_results |-> <<>> ])
      total_fields == Len(all_fields)
      mandatory_count == Len(mandatory_fields)
      filled_mandatory ==
        Len(SelectSeq(mandatory_fields,
              LAMBDA f : HasValue(Get(loop.field_status, f).value)))
  IN [ success |-> TRUE, order_number |-> order_number,
       location_code |-> location_code,
       is_valid |-> Len(loop.missing_fields) = 0,
       missing_fields |-> loop.missing_fields,
       field_status |-> loop.field_status,
       order_data |-> order_data,
       mandatory_fields |-> loop.mandatory_field_results,
       validation_summary |->
         [ total_fields |-> total_fields,
           mandatory_fields |-> mandatory_count,
           optional_fields |-> total_fields - mandatory_count,
           filled_mandatory_fields |-> filled_mandatory,
           missing_mandatory_fields |-> Len(loop.missing_fields),
           completion_percentage |->
             CompletionPercentage(filled_mandatory, mandatory_count) ] ]

OrderParamsSwapped(order_number, location_code) ==
  << <<"order_number", location_code>>, <<"location_code", order_number>> >>

\* the bind parameters validate_order passes
OrderParams(order_number, location_code) ==
  << <<"order_number", order_number>>, <<"location_code", location_code>> >>

\* results[0] on an empty list
IndexError == <<"list index out of range">>

ValidateOrderOutcomeNoEmptyCheck(order_number, location_code, exclude, io) ==
  IF io.raised
  THEN [kind |-> "return",
        value |-> ErrorResult(order_number, location_code, io.exc)]
  ELSE IF io.result = <<>>
  THEN [kind |-> "return",
        value |-> ErrorResult(order_number, location_code, IndexError)]
  ELSE [kind |-> "return",
        value |-> FoundResult(order_number, location_code, io.result[1], exclude)]

ValidateOrderOutcomeNoCatch(order_number, location_code, exclude, io) ==
  IF io.raised
  THEN [kind |-> "raise", exc |-> io.exc]
  ELSE IF io.result = <<>>
  THEN [kind |-> "return", value |-> NotFoundResult(order_number, location_code)]
  ELSE [kind |-> "return",
        value |-> FoundResult(order_number, location_code, io.result[1], exclude)]

\* what validate_order does with the outcome of execute_select
ValidateOrderOutcome(order_number, location_code, exclude, io) ==
  IF io.raised
  THEN [kind |-> "return",
        value |-> ErrorResult(order_number, location_code, io.exc)]
  ELSE IF io.result = <<>>
  THEN [kind |-> "return", value |-> NotFoundResult(order_number, location_code)]
  ELSE [kind |-> "return",
        value |-> FoundResult(order_number, location_code, io.result[1], exclude)]

\* the database calls validate_order makes
ValidateOrderQueries(order_number, location_code, db) ==
  << ExecuteSelect(OrderQuery, OrderParams(order_number, location_code), db) >>

\* ------------------------------------------------------------------------
\* The validator as a state machine
\* ------------------------------------------------------------------------

\* the arguments validate_order is called with
OrderArgs == { <<"7">> }
LocationArgs == { <<"n", "Y">> }

\* the lists update_excluded_fields is called with
ExclusionLists ==
  { DefaultExcluded, <<>>, <<"LOCATION_CODE">>,
    <<"Created_Date", "total_amount">>,
    [i \in 1..Len(SelectColumns) |-> Lower(SelectColumns[i])] }

NoCall == [op |-> "none"]
NoOutcome == [kind |-> "none"]
NoDb == [fail |-> "unused", rows |-> <<>>]
NoRequest == [endpoint |-> "none"]
NoResponse == [status |-> 0]

NoUnit == [op |-> "none"]

\* the download dictionary as the module creates it
NoDownloads == <<>>

\* the requests served at the same time, and a request slot not in use
Threads == {1, 2}
Idle ==
  [ pc |-> "idle", file_id |-> 0, file_path |-> 0, status |-> 0,
    error |-> <<>>, raised |-> "none" ]

NoHandles ==
  [ jira_service |-> "None", security_service |-> "None",
    order_validator |-> "None", elasticsearch_service |-> "None",
    jenkins_service |-> "None" ]

ValidatorInit ==
  /\ exclude_from_validation = DefaultExcluded
  /\ configured = DefaultExcluded
  /\ call = NoCall
  /\ outcome = NoOutcome
  /\ db_reply = NoDb
  /\ select_calls = 0
  /\ sql_log = <<>>
  /\ open_connections = 0
  /\ open_cursors = 0

\* the effect of one validate_order call on the validator's state
ValidateOrderCall(order_number, location_code, db) ==
  LET queries == ValidateOrderQueries(order_number, location_code, db)
      io == queries[Len(queries)]
  IN /\ call' = [ op |-> "validate_order", order_number |-> order_number,
                  location_code |-> location_code ]
     /\ outcome' = ValidateOrderOutcome(order_number, location_code,
                                        exclude_from_validation, io)
     /\ db_reply' = db
     /\ select_calls' = Len(queries)
     /\ sql_log' = Flatten([i \in 1..Len(queries) |-> queries[i].statements])
     /\ open_connections' =
          open_connections + io.connections_opened - io.connections_closed
     /\ open_cursors' = open_cursors + io.cursors_opened - io.cursors_closed
     /\ UNCHANGED << exclude_from_validation, configured >>

\* OrderValidator.validate_order, called directly
ValidateOrder ==
  \E order_number \in OrderArgs, location_code \in LocationArgs,
     db \in DbBehaviours :
    /\ ValidateOrderCall(order_number, location_code, db)
    /\ UNCHANGED app_vars
    /\ UNCHANGED side_vars

\* the list update_excluded_fields stores
StoredExclusions(current, excluded_fields) == excluded_fields

\* OrderValidator.update_excluded_fields
UpdateExcludedFields ==
  \E excluded_fields \in ExclusionLists :
    /\ exclude_from_validation' =
         StoredExclusions(exclude_from_validation, excluded_fields)
    /\ configured' = excluded_fields
    /\ call' = [op |-> "update_excluded_fields"]
    /\ outcome' = [kind |-> "return"]
    /\ db_reply' = NoDb
    /\ select_calls' = 0
    /\ sql_log' = <<>>
    /\ UNCHANGED << open_connections, open_cursors >>
    /\ UNCHANGED app_vars
    /\ UNCHANGED side_vars

\* the validator constructed, create_app not yet run, no request served
Booted ==
  /\ ValidatorInit
  /\ phase = "boot"
  /\ handles = NoHandles
  /\ request = NoRequest
  /\ response = NoResponse
  /\ downstream = <<>>
  /\ download_files = NoDownloads
  /\ files = {}
  /\ issued = 0
  /\ now = 0
  /\ threads = [t \in Threads |-> Idle]

Init == Booted /\ unit = NoUnit

Next == ValidateOrder \/ UpdateExcludedFields

Spec == Init /\ [][Next]_vars

\* ------------------------------------------------------------------------
\* Properties of validate_order
\* ------------------------------------------------------------------------

\* the last call was validate_order
Validated == call.op = "validate_order"

\* the lookup of the last validate_order call returned at least one row
RowReturned == Validated /\ db_reply.fail = "none" /\ db_reply.rows # <<>>

\* the row validate_order looked at, and the names of its columns
ReturnedRow == db_reply.rows[1]
ColumnIndexes == 1..Len(CursorDescription)
ColumnName(i) == Lower(CursorDescription[i])

\* a value that is non-null and non-empty after trimming
Populated(value) ==
  /\ value # PyNone
  /\ \E i \in 1..Len(value.text) : value.text[i] \notin Whitespace

\* a column whose name, compared case-insensitively, is on the list
OnList(i, list) ==
  \E j \in 1..Len(list) : Lower(list[j]) = ColumnName(i)

MandatoryColumns == {i \in ColumnIndexes : ~OnList(i, exclude_from_validation)}

FailingColumns == {i \in MandatoryColumns : ~Populated(ReturnedRow[i])}

Returned == outcome.kind = "return"

\* C1: a returned row whose mandatory fields (the returned columns not on
\* the exclusion list) are all non-null and non-empty after trimming is
\* reported with is_valid true and no missing field.
C1_AllPopulatedIsValid ==
  (RowReturned /\ FailingColumns = {}) =>
    /\ Returned
    /\ outcome.value.success
    /\ outcome.value.is_valid
    /\ outcome.value.missing_fields = <<>>

C1_Witness ==
  /\ RowReturned
  /\ Cardinality(MandatoryColumns) >= 2
  /\ FailingColumns = {}
  /\ \E i \in MandatoryColumns : ReturnedRow[i] = PyNum(<<"0">>)
  /\ outcome.value.is_valid

\* C2: a returned row with a null or blank mandatory field is reported with
\* is_valid false, and missing_fields lists the names of exactly the failing
\* mandatory fields, each once, in the order of the returned columns.
C2_MissingFieldsInColumnOrder ==
  (RowReturned /\ FailingColumns # {}) =>
    /\ Returned
    /\ outcome.value.success
    /\ ~outcome.value.is_valid
    /\ LET missing == outcome.value.missing_fields
       IN /\ \A i \in FailingColumns :
               \E j \in 1..Len(missing) : missing[j] = ColumnName(i)
          /\ \A j \in 1..Len(missing) :
               \E i \in FailingColumns : missing[j] = ColumnName(i)
          /\ \A j, k \in 1..Len(missing) :
               j < k =>
                 \E a, b \in FailingColumns :
                   a < b /\ missing[j] = ColumnName(a) /\ missing[k] = ColumnName(b)

C2_Witness ==
  /\ RowReturned
  /\ Cardinality(FailingColumns) >= 2
  /\ Cardinality(MandatoryColumns) > Cardinality(FailingColumns)
  /\ Len(outcome.value.missing_fields) = Cardinality(FailingColumns)

\* C3: completion_percentage is 100 * filled / mandatory rounded to one
\* decimal (here in tenths of a percent: the integer nearest to
\* 1000 * filled / mandatory, a tie going to the even one), and 100.0 when
\* there is no mandatory field.
C3_CompletionPercentage ==
  (Validated /\ Returned /\ outcome.value.success) =>
    LET summary == outcome.value.validation_summary
        filled == summary.filled_mandatory_fields
        mandatory == summary.mandatory_fields
        p == summary.completion_percentage
        d == p * mandatory - 1000 * filled
    IN /\ mandatory = Cardinality(MandatoryColumns)
       /\ filled = Cardinality(MandatoryColumns \ FailingColumns)
       /\ mandatory = 0 => p = 1000
       /\ mandatory > 0 =>
            /\ 2 * d <= mandatory
            /\ 2 * d >= -mandatory
            /\ (2 * d = mandatory \/ 2 * d = -mandatory) => p % 2 = 0

C3_Witness ==
  /\ RowReturned
  /\ outcome.value.validation_summary.mandatory_fields = 3
  /\ outcome.value.validation_summary.filled_mandatory_fields = 2
  /\ outcome.value.validation_summary.completion_percentage = 667

\* the lookup of the last validate_order call ran and matched no row
NoRowReturned == Validated /\ db_reply.fail = "none" /\ db_reply.rows = <<>>

\* C4 as stated: a lookup that matches no row is reported with success true
\* and a not-found indicator.
C4_Original ==
  NoRowReturned => (Returned /\ outcome.value.success)

\* C4: a lookup that matches no row does not raise; it is reported with
\* success false, the error 'Order not found in database' and the
\* order_number and location_code of the call.
C4_NotFoundIsReported ==
  NoRowReturned =>
    /\ Returned
    /\ outcome.value =
         [ success |-> FALSE, order_number |-> call.order_number,
           location_code |-> call.location_code,
           error |-> <<"Order not found in database">> ]

C4_Witness ==
  /\ NoRowReturned
  /\ Len(sql_log) = 1
  /\ ~outcome.value.success

\* the database failed during the last validate_order call
DbFailed == Validated /\ db_reply.fail \in FailStages

\* C5: when opening the connection or running the query fails,
\* validate_order raises nothing: it returns success false with an error
\* message and the order_number and location_code it was called with.
C5_DbFailureIsReturned ==
  DbFailed =>
    /\ Returned
    /\ ~outcome.value.success
    /\ outcome.value.order_number = call.order_number
    /\ outcome.value.location_code = call.location_code
    /\ outcome.value.error = <<"Validation failed: ">> \o DbError(db_reply.fail)

C5_Witness ==
  /\ Validated
  /\ db_reply.fail = "connect"
  /\ Returned
  /\ ~outcome.value.success

\* C6: in a successful result there is one entry per returned column; the
\* entry of a mandatory field is valid iff its value is non-null and
\* non-empty after trimming; the entry of a field on the exclusion list is
\* valid whatever its value, and the field is not in missing_fields.
C6_FieldEntries ==
  (Validated /\ Returned /\ outcome.value.success) =>
    LET entries == outcome.value.mandatory_fields
        missing == outcome.value.missing_fields
    IN /\ Len(entries) = Len(CursorDescription)
       /\ \A i \in ColumnIndexes :
            /\ entries[i].field_name = ColumnName(i)
            /\ entries[i].field_value = ReturnedRow[i]
            /\ entries[i].is_mandatory = (i \in MandatoryColumns)
            /\ i \in MandatoryColumns =>
                 (entries[i].is_valid <=> Populated(ReturnedRow[i]))
            /\ i \notin MandatoryColumns =>
                 /\ entries[i].is_valid
                 /\ \A j \in 1..Len(missing) : missing[j] # ColumnName(i)
            /\ Get(outcome.value.field_status, ColumnName(i)).is_valid
                 = entries[i].is_valid

C6_Witness ==
  /\ RowReturned
  /\ \E i \in ColumnIndexes :
       /\ i \notin MandatoryColumns
       /\ ReturnedRow[i] = PyNone
       /\ outcome.value.mandatory_fields[i].is_valid
  /\ \E i \in MandatoryColumns : ~outcome.value.mandatory_fields[i].is_valid

\* C7: validate_order treats as mandatory exactly the returned columns whose
\* name, compared case-insensitively, is not on the exclusion list last given
\* to the validator (the constructor's list, or the argument of the last
\* update_excluded_fields call).
C7_MandatoryIsNotExcluded ==
  /\ exclude_from_validation = configured
  /\ (Validated /\ Returned /\ outcome.value.success) =>
       /\ \A i \in ColumnIndexes :
            outcome.value.mandatory_fields[i].is_mandatory <=> ~OnList(i, configured)
       /\ outcome.value.validation_summary.mandatory_fields =
            Cardinality({i \in ColumnIndexes : ~OnList(i, configured)})

C7_Witness ==
  /\ RowReturned
  /\ configured = <<"LOCATION_CODE">>
  /\ \E i \in ColumnIndexes :
       /\ ColumnName(i) = "location_code"
       /\ ~outcome.value.mandatory_fields[i].is_mandatory
  /\ \E i \in ColumnIndexes :
       /\ ColumnName(i) = "created_date"
       /\ outcome.value.mandatory_fields[i].is_mandatory

\* C9 as stated: every validate_order call issues exactly one SQL query,
\* also when it ends in an error.
C9_Original ==
  Validated => Len(sql_log) = 1

\* C9: every validate_order call makes exactly one execute_select call; the
\* cursor executes exactly one statement when the connection and the cursor
\* were obtained and none when either failed; the statement is the order
\* query, which matches on order_number and location_code, with the call's
\* order_number and location_code as its bind parameters.
C9_OneParametrizedQuery ==
  Validated =>
    /\ select_calls = 1
    /\ Len(sql_log) = (IF db_reply.fail \in {"connect", "cursor"} THEN 0 ELSE 1)
    /\ \A i \in 1..Len(sql_log) :
         /\ sql_log[i].query = OrderQuery
         /\ {sql_log[i].query.where[w].column : w \in 1..Len(sql_log[i].query.where)}
              = {"order_number", "location_code"}
         /\ \A w \in 1..Len(sql_log[i].query.where) :
              HasKey(sql_log[i].params, sql_log[i].query.where[w].bind)
         /\ Len(sql_log[i].params) = 2
         /\ Get(sql_log[i].params, "order_number") = call.order_number
         /\ Get(sql_log[i].params, "location_code") = call.location_code

C9_Witness ==
  /\ Validated
  /\ db_reply.fail = "execute"
  /\ Len(sql_log) = 1
  /\ Get(sql_log[1].params, "location_code") = <<"n", "Y">>

\* ------------------------------------------------------------------------
\* services/jenkins_service.py
\*
\* Job names, parameter names and the words of their values are tokens: a
\* string is a sequence of tokens, a blank being a token of its own.
\* ------------------------------------------------------------------------

\* JenkinsService.job_configs
JobConfigs ==
  << << <<"fraud_story_prediction">>,
        [ job_name |-> "fraud-story-prediction",
          parameters |-> <<"enterprise_release", "email_id">> ] >> >>

\* the endings validate_parameters accepts without a warning
UsualDomains == {".com", ".org", ".net", ".edu", ".gov"}

\* the tokens str.isalnum() accepts
Alnum == {"r1", "a", "b"}

\* release.replace('.', '').replace('-', '').replace('_', '').isalnum()
ReleaseIsAlnum(release) ==
  LET kept == SelectSeq(release, LAMBDA c : c \notin {".", "-", "_"})
  IN kept # <<>> /\ \A i \in 1..Len(kept) : kept[i] \in Alnum

\* required_param not in parameters or not parameters[required_param].strip()
ParamMissing(parameters, required_param) ==
  ~HasKey(parameters, required_param)
    \/ Strip(Get(parameters, required_param)) = <<>>

ValidatedParametersWithoutEmail(parameters) ==
  LET kept == SelectSeq(parameters,
                LAMBDA kv : Strip(kv[2]) # <<>> /\ kv[1] # "email_id")
  IN [i \in 1..Len(kept) |-> <<kept[i][1], Strip(kept[i][2])>>]

\* {k: v.strip() for k, v in parameters.items() if v.strip()}
ValidatedParameters(parameters) ==
  LET kept == SelectSeq(parameters, LAMBDA kv : Strip(kv[2]) # <<>>)
  IN [i \in 1..Len(kept) |-> <<kept[i][1], Strip(kept[i][2])>>]

\* JenkinsService.validate_parameters
ValidateParameters(job_type, parameters) ==
  IF ~HasKey(JobConfigs, job_type)
  THEN [ success |-> FALSE, error |-> <<"Unknown job type: ">> \o job_type,
         has_errors |-> FALSE ]
  ELSE
    LET required == Get(JobConfigs, job_type).parameters
        missing == SelectSeq(required, LAMBDA r : ParamMissing(parameters, r))
        email == IF HasKey(parameters, "email_id")
                 THEN Strip(Get(parameters, "email_id")) ELSE <<>>
        release == IF HasKey(parameters, "enterprise_release")
                   THEN Strip(Get(parameters, "enterprise_release")) ELSE <<>>
        fraud == job_type = <<"fraud_story_prediction">>
        has_at == \E i \in 1..Len(email) : email[i] = "@"
        bad_email ==
          fraud /\ HasKey(parameters, "email_id") /\ email # <<>> /\ ~has_at
        odd_domain ==
          /\ fraud /\ HasKey(parameters, "email_id") /\ email # <<>> /\ has_at
          /\ email[Len(email)] \notin UsualDomains
        odd_release ==
          /\ fraud /\ HasKey(parameters, "enterprise_release")
          /\ release # <<>> /\ ~ReleaseIsAlnum(release)
        errors ==
          [i \in 1..Len(missing) |-> <<"Missing required parameter: ", missing[i]>>]
            \o (IF bad_email THEN << <<"Invalid email format">> >> ELSE <<>>)
        warnings ==
          (IF odd_domain THEN << <<"Email domain seems unusual">> >> ELSE <<>>)
            \o (IF odd_release
                THEN << <<"Enterprise release format seems unusual">> >>
                ELSE <<>>)
    IN [ success |-> Len(errors) = 0, errors |-> errors, warnings |-> warnings,
         validated_parameters |-> ValidatedParameters(parameters),
         has_errors |-> TRUE ]

\* the replies of Jenkins to a build request: a status and a Location header
JenkinsReplies ==
  { [status |-> 201, location |-> <<"queue/item/7">>],
    [status |-> 401, location |-> <<>>],
    [status |-> 404, location |-> <<>>],
    [status |-> 500, location |-> <<>>],
    [status |-> 0, location |-> <<>>] }

\* the error trigger_job reports for a failed build request
TriggerError(reply, job_name) ==
  CASE reply.status = 401 -> <<"Authentication failed: Invalid credentials">>
    [] reply.status = 403 ->
         <<"Access denied: Insufficient permissions to trigger job">>
    [] reply.status = 404 -> <<"Job not found: ", job_name>>
    [] reply.status = 0 -> <<"Failed to trigger job: ", "connection error">>
    [] OTHER -> <<"Failed to trigger job: HTTP ", ToString(reply.status)>>

TriggerJobForwardsAll(job_type, parameters, reply) ==
  IF \/ ~HasKey(JobConfigs, job_type)
     \/ \E i \in DOMAIN Get(JobConfigs, job_type).parameters :
          ParamMissing(parameters, Get(JobConfigs, job_type).parameters[i])
  THEN [result |-> [success |-> FALSE, error |-> <<"not triggered">>],
        posts |-> <<>>]
  ELSE
  LET job_name == Get(JobConfigs, job_type).job_name
      post == [ method |-> "POST",
                path |-> <<"/job/", job_name, "/buildWithParameters">>,
                content_type |-> "application/x-www-form-urlencoded",
                data |-> parameters \o << <<"triggered_at", <<"now">> >>,
                                          <<"triggered_by", <<"Jira AI Assistant">> >> >>,
                answer |-> reply ]
  IN [ result |-> [ success |-> reply.status \in 200..399,
                    job_type |-> job_type, job_name |-> job_name,
                    parameters |-> post.data, queue_location |-> reply.location,
                    status |-> "triggered" ],
       posts |-> <<post>> ]

\* JenkinsService.trigger_job: its result and the HTTP requests it sent
TriggerJob(job_type, parameters, reply) ==
  IF ~HasKey(JobConfigs, job_type)
  THEN [ result |-> [success |-> FALSE,
                     error |-> <<"Unknown job type: ">> \o job_type],
         posts |-> <<>> ]
  ELSE
    LET job_config == Get(JobConfigs, job_type)
        required == job_config.parameters
        missing_params ==
          SelectSeq(required, LAMBDA r : ParamMissing(parameters, r))
        jenkins_params ==
          [i \in 1..Len(required) |->
             << required[i],
                IF HasKey(parameters, required[i])
                THEN Get(parameters, required[i]) ELSE <<>> >>]
            \o << <<"triggered_at", <<"now">> >>,
                  <<"triggered_by", <<"Jira AI Assistant">> >> >>
        post == [ method |-> "POST",
                  path |-> <<"/job/", job_config.job_name, "/buildWithParameters">>,
                  content_type |-> "application/x-www-form-urlencoded",
                  data |-> jenkins_params, answer |-> reply ]
    IN IF missing_params # <<>>
       THEN [ result |-> [success |-> FALSE,
                          error |-> <<"Missing required parameters: ">>
                                      \o missing_params],
              posts |-> <<>> ]
       ELSE IF reply.status \in 200..399
       THEN [ result |-> [ success |-> TRUE, job_type |-> job_type,
                           job_name |-> job_config.job_name,
                           parameters |-> jenkins_params,
                           queue_location |-> reply.location,
                           status |-> "triggered" ],
              posts |-> <<post>> ]
       ELSE [ result |-> [success |-> FALSE,
                          error |-> TriggerError(reply, job_config.job_name)],
              posts |-> <<post>> ]

\* the replies of Jenkins to a GET of a job or of a build: a status (0 for a
\* connection that failed) and, of the JSON body, the number of the last
\* build (0 for none) and whether the build is running
JenkinsGetReplies ==
  { [status |-> s, last_build |-> n, building |-> b] :
      s \in {200, 404, 500, 0}, n \in {0, 7}, b \in BOOLEAN }

UnknownJobType(job_type) ==
  [success |-> FALSE, error |-> <<"Unknown job type: ">> \o job_type]

JenkinsGet(path, reply) == [method |-> "GET", path |-> path, answer |-> reply]

\* JenkinsService.get_job_info: its result and the HTTP requests it sent
GetJobInfo(job_type, reply, build_reply) ==
  IF ~HasKey(JobConfigs, job_type)
  THEN [result |-> UnknownJobType(job_type), gets |-> <<>>]
  ELSE
    LET job_config == Get(JobConfigs, job_type)
        job_name == job_config.job_name
        get == JenkinsGet(<<"/job/", job_name, "/api/json">>, reply)
        build_get ==
          JenkinsGet(<<"/job/", job_name, "/", ToString(reply.last_build),
                       "/api/json">>, build_reply)
    IN IF reply.status = 0
       THEN [ result |-> [ success |-> FALSE,
                           error |-> <<"Failed to get job information: ",
                                       "connection error">> ],
              gets |-> <<get>> ]
       ELSE IF reply.status = 404
       THEN [ result |-> [ success |-> FALSE,
                           error |-> <<"Job not found: ", job_name>> ],
              gets |-> <<get>> ]
       ELSE IF reply.status >= 400
       THEN [ result |-> [ success |-> FALSE,
                           error |-> <<"Failed to get job info: HTTP ",
                                       ToString(reply.status)>> ],
              gets |-> <<get>> ]
       ELSE [ result |-> [ success |-> TRUE, job_type |-> job_type,
                           job_name |-> job_name,
                           parameters |-> job_config.parameters,
                           lastBuild |-> reply.last_build,
                           has_last_build_info |->
                             reply.last_build # 0 /\ build_reply.status = 200 ],
              gets |-> IF reply.last_build # 0
                       THEN <<get, build_get>> ELSE <<get>> ]

GetBuildStatusAsksFirst(job_type, build_number, reply) ==
  LET get == JenkinsGet(<<"/job/", job_type, "/", ToString(build_number),
                          "/api/json">>, reply)
  IN IF ~HasKey(JobConfigs, job_type)
     THEN [result |-> UnknownJobType(job_type), gets |-> <<get>>]
     ELSE [ result |-> [ success |-> reply.status = 200,
                         job_type |-> job_type ],
            gets |-> <<get>> ]

\* JenkinsService.get_build_status: its result and the HTTP requests it sent
GetBuildStatus(job_type, build_number, reply) ==
  IF ~HasKey(JobConfigs, job_type)
  THEN [result |-> UnknownJobType(job_type), gets |-> <<>>]
  ELSE
    LET job_name == Get(JobConfigs, job_type).job_name
        get == JenkinsGet(<<"/job/", job_name, "/", ToString(build_number),
                            "/api/json">>, reply)
    IN IF reply.status = 0
       THEN [ result |-> [ success |-> FALSE,
                           error |-> <<"Failed to get build status: ",
                                       "connection error">> ],
              gets |-> <<get>> ]
       ELSE IF reply.status >= 400
       THEN [ result |-> [ success |-> FALSE,
                           error |-> <<"Failed to get build status: ",
                                       ToString(reply.status), " Error">> ],
              gets |-> <<get>> ]
       ELSE [ result |-> [ success |-> TRUE, job_type |-> job_type,
                           job_name |-> job_name,
                           build_number |-> build_number,
                           status |-> IF reply.building
                                      THEN "running" ELSE "completed",
                           building |-> reply.building ],
              gets |-> <<get>> ]

\* ------------------------------------------------------------------------
\* services/elasticsearch_service.py: the log search
\* ------------------------------------------------------------------------

\* one entry of Config.LOG_ANALYSIS_CONFIGS
LogConfig(index, custom_filters) ==
  [ index |-> index, session_field |-> "sessionId", level_field |-> "level",
    component_field |-> "component", custom_filters |-> custom_filters ]

\* Config.LOG_ANALYSIS_CONFIGS, with the index names the environment leaves
\* at their defaults
LogConfigs ==
  << << <<"3d-secure">>,
        LogConfig("logs-3d-secure-*",
                  <<"transactionId", "merchantId", "authStatus">>) >>,
     << <<"enforce-xml6">>,
        LogConfig("logs-enforce-xml6-*",
                  <<"xmlVersion", "validationStatus", "complianceLevel">>) >>,
     << <<"full-auth">>,
        LogConfig("logs-full-auth-*", <<"authMethod", "userId", "authResult">>) >>,
     << <<"payment-gateway">>,
        LogConfig("logs-payment-gateway-*",
                  <<"paymentId", "gateway", "currency">>) >>,
     << <<"fraud-detection">>,
        LogConfig("logs-fraud-detection-*",
                  <<"riskScore", "decision", "ruleSet">>) >>,
     << <<"api-gateway">>,
        LogConfig("logs-api-gateway-*",
                  <<"apiEndpoint", "httpMethod", "statusCode">>) >> >>

\* the keys of time_map
TimeRanges == {"1h", "6h", "24h", "7d", "30d"}

\* time_map[time_range]
TimeMap(time_range) ==
  CASE time_range = "1h" -> "now-1h"
    [] time_range = "6h" -> "now-6h"
    [] time_range = "24h" -> "now-24h"
    [] time_range = "7d" -> "now-7d"
    [] time_range = "30d" -> "now-30d"

NoFilter == [clause |-> "None"]

BuildTimeFilterClamped(time_range) ==
  IF time_range.kind = "str" /\ Len(time_range.text) = 1
     /\ time_range.text[1] \in TimeRanges
  THEN [ clause |-> "range", field |-> "@timestamp",
         gte |-> TimeMap(time_range.text[1]), lte |-> "now" ]
  ELSE [ clause |-> "range", field |-> "@timestamp",
         gte |-> "now-24h", lte |-> "now" ]

\* _build_time_filter
BuildTimeFilter(time_range) ==
  IF time_range.kind = "str" /\ Len(time_range.text) = 1
     /\ time_range.text[1] \in TimeRanges
  THEN [ clause |-> "range", field |-> "@timestamp",
         gte |-> TimeMap(time_range.text[1]), lte |-> "now" ]
  ELSE NoFilter

Term(field, value) == [clause |-> "term", field |-> field, value |-> value]

\* the must clauses _build_search_query appends
SessionClauses(session_field, session_id) ==
  << [clause |-> "match", field |-> session_field, value |-> session_id] >>

\* _build_search_query: the query, or the exception of log_level.upper()
BuildSearchQuery(session_id, log_config, filters) ==
  LET time_range == GetOr(filters, "time_range", PyStr(<<"24h">>))
      time_filter == IF Truthy(time_range)
                     THEN BuildTimeFilter(time_range) ELSE NoFilter
      log_level == Get(filters, "log_level")
      component == Get(filters, "component")
      custom == SelectSeq(log_config.custom_filters,
                          LAMBDA f : HasKey(filters, f) /\ Truthy(Get(filters, f)))
  IN IF Truthy(log_level) /\ log_level.kind # "str"
     THEN [raised |-> TRUE, exc |-> <<"no attribute 'upper'">>]
     ELSE
       [ raised |-> FALSE,
         query |->
           [ must |-> SessionClauses(log_config.session_field, session_id),
             filter |->
               (IF time_filter # NoFilter THEN <<time_filter>> ELSE <<>>)
               \o (IF Truthy(log_level) /\ log_level # PyStr(<<"all">>)
                   THEN <<Term(log_config.level_field, Upper(log_level.text))>>
                   ELSE <<>>)
               \o (IF Truthy(component)
                   THEN <<Term(log_config.component_field, component)>>
                   ELSE <<>>)
               \o [i \in 1..Len(custom) |-> Term(custom[i], Get(filters, custom[i]))],
             sort |-> << [field |-> "@timestamp", order |-> "desc"] >>,
             size |-> GetOr(filters, "max_results", PyNum(<<"100">>)) ] ]

\* what Elasticsearch does with a search request: an answer with hits, an
\* answer that is not JSON, an answer whose hits are not an object, an HTTP
\* error, or no answer (status 0)
EsReplies ==
  { [status |-> 200, body |-> "hits"], [status |-> 200, body |-> "not json"],
    [status |-> 200, body |-> "no hits object"],
    [status |-> 500, body |-> "error"], [status |-> 0, body |-> "none"] }

\* the request _execute_search sends, with the answer it got
SearchPost(index_name, query, es) ==
  [ method |-> "POST", path |-> <<"/", index_name, "/_search">>,
    content_type |-> "application/json", data |-> query, answer |-> es ]

ExecuteSearchWithRetry(index_name, query, es) ==
  IF es.status \in 200..399 /\ es.body # "not json"
  THEN [ result |-> [success |-> TRUE, data |-> es.body],
         posts |-> <<SearchPost(index_name, query, es)>> ]
  ELSE [ result |-> [success |-> FALSE, error |-> <<"Search request failed: ">>],
         posts |-> <<SearchPost(index_name, query, es), SearchPost(index_name, query, es)>> ]

\* _execute_search: its result and the HTTP requests it sent
ExecuteSearch(index_name, query, es) ==
  IF es.status \in 200..399 /\ es.body # "not json"
  THEN [ result |-> [success |-> TRUE, data |-> es.body],
         posts |-> <<SearchPost(index_name, query, es)>> ]
  ELSE [ result |-> [success |-> FALSE, error |-> <<"Search request failed: ">>],
         posts |-> <<SearchPost(index_name, query, es)>> ]

\* search_logs: its result and the HTTP requests it sent
SearchLogs(log_type, session_id, filters, es) ==
  IF ~HasKey(LogConfigs, log_type)
  THEN [ result |-> [success |-> FALSE,
                     error |-> <<"Unknown log type: ">> \o log_type],
         posts |-> <<>> ]
  ELSE
    LET log_config == Get(LogConfigs, log_type)
        built == BuildSearchQuery(session_id, log_config, filters)
        search_results == ExecuteSearch(log_config.index, built.query, es)
    IN IF built.raised
       THEN [ result |-> [success |-> FALSE,
                          error |-> <<"Search failed: ">> \o built.exc],
              posts |-> <<>> ]
       ELSE IF ~search_results.result.success
       THEN search_results
       ELSE IF search_results.result.data = "no hits object"
       THEN [ result |-> [success |-> FALSE,
                          error |-> <<"Search failed: ", "no attribute 'get'">>],
              posts |-> search_results.posts ]
       ELSE [ result |-> [ success |-> TRUE, log_type |-> log_type,
                           session_id |-> session_id,
                           filters_applied |-> filters,
                           index_searched |-> log_config.index ],
              posts |-> search_results.posts ]

\* ------------------------------------------------------------------------
\* app.py: create_app and the request handlers
\* ------------------------------------------------------------------------

\* a request body: no JSON, JSON that does not parse, or a JSON object
NoJson == [json |-> "none", data |-> <<>>]
BadJson == [json |-> "malformed", data |-> <<>>]
Json(data) == [json |-> "object", data |-> data]

\* not data
NoData(body) == body.json = "none" \/ body.data = <<>>

\* a response of a handler and the service calls made to produce it
Reply(status, body, calls) == [status |-> status, body |-> body, calls |-> calls]

Failure(error) == [success |-> FALSE, error |-> error]

\* what a service method whose code is outside the handler does
ServiceOutcomes ==
  { [kind |-> "return", value |-> [success |-> TRUE]],
    [kind |-> "return", value |-> Failure(<<"service error">>)],
    [kind |-> "raise", exc |-> <<"service exception">>] }

\* where create_app can fail
InitFailures ==
  { "none", "Config", "import", "JiraService", "SecurityService",
    "OrderValidator", "ElasticsearchService" }

Ready(ok) == IF ok THEN "ready" ELSE "None"

CreatedHandlesIgnoringConfig(config_valid, failure, jenkins_fails) ==
  LET entered == failure \notin {"Config", "import"}
  IN [ jira_service |-> Ready(entered /\ failure # "JiraService"),
       security_service |->
         Ready(entered /\ failure \notin {"JiraService", "SecurityService"}),
       order_validator |->
         Ready(entered /\ failure \notin
                 {"JiraService", "SecurityService", "OrderValidator"}),
       elasticsearch_service |->
         Ready(entered /\ failure \notin
                 {"JiraService", "SecurityService", "OrderValidator",
                  "ElasticsearchService"}),
       jenkins_service |-> Ready(~jenkins_fails) ]

\* the handles create_app and the module-level Jenkins block leave behind
CreatedHandles(config_valid, failure, jenkins_fails) ==
  LET entered == config_valid /\ failure \notin {"Config", "import"}
  IN [ jira_service |-> Ready(entered /\ failure # "JiraService"),
       security_service |->
         Ready(entered /\ failure \notin {"JiraService", "SecurityService"}),
       order_validator |->
         Ready(entered /\ failure \notin
                 {"JiraService", "SecurityService", "OrderValidator"}),
       elasticsearch_service |->
         Ready(entered /\ failure \notin
                 {"JiraService", "SecurityService", "OrderValidator",
                  "ElasticsearchService"}),
       jenkins_service |-> Ready(~jenkins_fails) ]

\* create_app
CreateApp ==
  /\ phase = "boot"
  /\ \E config_valid \in BOOLEAN, failure \in InitFailures,
        jenkins_fails \in BOOLEAN :
       handles' = CreatedHandles(config_valid, failure, jenkins_fails)
  /\ phase' = "serving"
  /\ UNCHANGED << request, response, downstream >>
  /\ UNCHANGED validator_vars
  /\ UNCHANGED side_vars

\* str(data['order_number']).strip()
NormalizeOrderNumber(value) == Strip(Str(value))

NormalizeLocationCodeNoUpper(value) == Strip(Str(value))

\* str(data['location_code']).strip().upper()
NormalizeLocationCode(value) == Upper(Strip(Str(value)))

ValidateOrderGateBodyFirst(handle, body) ==
  IF body.json = "malformed"
  THEN [ answered |-> TRUE,
         reply |-> Reply(500, Failure(<<"Validation failed: ", "bad request">>), <<>>) ]
  ELSE IF \/ NoData(body)
          \/ ~Truthy(Get(body.data, "order_number"))
          \/ ~Truthy(Get(body.data, "location_code"))
  THEN [ answered |-> TRUE,
         reply |-> Reply(400, Failure(<<"Missing required fields: order_number and location_code">>), <<>>) ]
  ELSE IF handle = "None"
  THEN [ answered |-> TRUE,
         reply |-> Reply(503, Failure(<<"Order validation service not available. Please check Oracle DB configuration.">>), <<>>) ]
  ELSE [ answered |-> FALSE,
         order_number |-> NormalizeOrderNumber(Get(body.data, "order_number")),
         location_code |-> NormalizeLocationCode(Get(body.data, "location_code")) ]

\* api_validate_order up to the call of the validator: a reply, or the
\* arguments of the call
ValidateOrderGate(handle, body) ==
  IF handle = "None"
  THEN [ answered |-> TRUE,
         reply |-> Reply(503, Failure(<<"Order validation service not available. Please check Oracle DB configuration.">>), <<>>) ]
  ELSE IF body.json = "malformed"
  THEN [ answered |-> TRUE,
         reply |-> Reply(500, Failure(<<"Validation failed: ", "bad request">>), <<>>) ]
  ELSE IF \/ NoData(body)
          \/ ~Truthy(Get(body.data, "order_number"))
          \/ ~Truthy(Get(body.data, "location_code"))
  THEN [ answered |-> TRUE,
         reply |-> Reply(400, Failure(<<"Missing required fields: order_number and location_code">>), <<>>) ]
  ELSE [ answered |-> FALSE,
         order_number |-> NormalizeOrderNumber(Get(body.data, "order_number")),
         location_code |-> NormalizeLocationCode(Get(body.data, "location_code")) ]

\* api_validate_order after the validator has answered
ValidateOrderReply(result, order_number, location_code) ==
  LET made == << [ service |-> "order_validator", method |-> "validate_order",
                   args |-> <<order_number, location_code>> ] >>
  IN IF result.kind = "raise"
     THEN Reply(500, Failure(<<"Validation failed: ">> \o result.exc), made)
     ELSE Reply(200, result.value, made)

\* api_query
ApiQueryReply(handle, body, service) ==
  IF handle = "None"
  THEN Reply(503, Failure(<<"Jira service not available. Please check Jira and OpenAI configuration.">>), <<>>)
  ELSE IF body.json = "malformed"
  THEN Reply(500, Failure(<<"bad request">>), <<>>)
  ELSE IF NoData(body) \/ ~Truthy(Get(body.data, "query"))
  THEN Reply(400, Failure(<<"Missing required field: query">>), <<>>)
  ELSE
    LET made == << [ service |-> "jira_service", method |-> "process_user_query",
                     args |-> <<Get(body.data, "query")>> ] >>
    IN IF service.kind = "raise"
       THEN Reply(500, Failure(service.exc), made)
       ELSE Reply(200, service.value, made)

\* api_security_analysis
ApiSecurityAnalysisReply(handle, body, service) ==
  IF handle = "None"
  THEN Reply(503, Failure(<<"Security analysis service not available. Please check Jira and OpenAI configuration.">>), <<>>)
  ELSE IF body.json = "malformed"
  THEN Reply(500, Failure(<<"bad request">>), <<>>)
  ELSE IF NoData(body) \/ ~Truthy(Get(body.data, "issue_key"))
  THEN Reply(400, Failure(<<"Missing required field: issue_key">>), <<>>)
  ELSE
    LET issue_key == Upper(Strip(Str(Get(body.data, "issue_key"))))
        made == << [ service |-> "security_service",
                     method |-> "analyze_issue_security_impact",
                     args |-> <<issue_key>> ] >>
    IN IF service.kind = "raise"
       THEN Reply(500, Failure(service.exc), made)
       ELSE Reply(200, service.value, made)

\* the filters api_search_logs forwards when the request names them
LogSpecificFilters ==
  << "transaction_id", "merchant_id", "xml_version", "validation_status",
     "user_id", "auth_method", "payment_id", "gateway", "risk_score",
     "decision", "api_endpoint", "http_method" >>

Digits == {"0", "5", "7"}

\* int(value) does not raise
IntParses(value) ==
  \/ value.kind = "num"
  \/ /\ value.kind = "str"
     /\ Strip(value.text) # <<>>
     /\ \A i \in 1..Len(Strip(value.text)) : Strip(value.text)[i] \in Digits

\* int(value)
PyInt(value) == PyNum(Strip(value.text))

\* the filters dict api_search_logs builds
SearchFilters(data) ==
  LET given == SelectSeq(LogSpecificFilters, LAMBDA f : Truthy(Get(data, f)))
  IN << <<"time_range", GetOr(data, "time_range", PyStr(<<"24h">>))>>,
        <<"log_level", GetOr(data, "log_level", PyStr(<<"all">>))>>,
        <<"max_results", PyInt(GetOr(data, "max_results", PyNum(<<"100">>)))>>,
        <<"component", Get(data, "component")>> >>
       \o [i \in 1..Len(given) |->
             <<given[i], PyStr(Strip(Str(Get(data, given[i]))))>>]

\* api_search_logs
ApiSearchLogsReply(handle, body, es) ==
  IF handle = "None"
  THEN Reply(503, Failure(<<"Elasticsearch service not available. Please check Elasticsearch configuration.">>), <<>>)
  ELSE IF body.json = "malformed"
  THEN Reply(500, Failure(<<"Log search failed: ", "bad request">>), <<>>)
  ELSE IF \/ NoData(body)
          \/ ~Truthy(Get(body.data, "log_type"))
          \/ ~Truthy(Get(body.data, "session_id"))
  THEN Reply(400, Failure(<<"Missing required fields: log_type and session_id">>), <<>>)
  ELSE IF ~IntParses(GetOr(body.data, "max_results", PyNum(<<"100">>)))
  THEN Reply(500, Failure(<<"Log search failed: ", "invalid literal for int()">>), <<>>)
  ELSE
    LET log_type == Strip(Str(Get(body.data, "log_type")))
        session_id == Strip(Str(Get(body.data, "session_id")))
        searched == SearchLogs(log_type, session_id, SearchFilters(body.data), es)
        made == << [ service |-> "elasticsearch_service", method |-> "search_logs",
                     args |-> <<log_type, session_id, SearchFilters(body.data)>>,
                     posts |-> searched.posts ] >>
    IN Reply(200, searched.result, made)

\* trigger_jenkins_job
TriggerJenkinsJobReply(handle, body, jenkins) ==
  IF handle = "None"
  THEN Reply(503, Failure(<<"Jenkins service not available. Please check Jenkins configuration.">>), <<>>)
  ELSE IF body.json = "malformed"
  THEN Reply(500, Failure(<<"Failed to trigger job: ", "bad request">>), <<>>)
  ELSE IF NoData(body) \/ ~Truthy(Get(body.data, "job_type"))
  THEN Reply(400, Failure(<<"Missing required field: job_type">>), <<>>)
  ELSE
    LET job_type == Strip(Str(Get(body.data, "job_type")))
        parameters == GetOr(body.data, "parameters", <<>>)
        validation_result == ValidateParameters(job_type, parameters)
        validated == << [ service |-> "jenkins_service",
                          method |-> "validate_parameters",
                          args |-> <<job_type, parameters>> ] >>
    IN IF ~validation_result.success
       THEN IF validation_result.has_errors
            THEN Reply(400,
                   [ success |-> FALSE, error |-> <<"Parameter validation failed">>,
                     validation_errors |-> validation_result.errors,
                     validation_warnings |-> validation_result.warnings ],
                   validated)
            ELSE Reply(500, Failure(<<"Failed to trigger job: ", "'errors'">>),
                       validated)
       ELSE
         LET triggered ==
               TriggerJob(job_type, validation_result.validated_parameters, jenkins)
         IN Reply(200, triggered.result,
                  validated \o << [ service |-> "jenkins_service",
                                    method |-> "trigger_job",
                                    args |-> <<job_type,
                                               validation_result.validated_parameters>>,
                                    posts |-> triggered.posts ] >>)

\* ------------------------------------------------------------------------
\* The application as a state machine
\* ------------------------------------------------------------------------

\* the JSON values requests carry in order_number and location_code
OrderInputs ==
  { PyStr(<<>>), PyStr(<<" ", "7", " ">>), PyNum(<<"7">>), PyNum(<<"0">>) }
LocationInputs ==
  { PyStr(<<>>), PyStr(<<" ">>), PyStr(<<" ", "n", "y", "\t">>),
    PyStr(<<"N", "y">>) }

ValidateOrderBodies ==
  { NoJson, BadJson, Json(<<>>) }
    \cup { Json(<< <<"order_number", o>> >>) : o \in OrderInputs }
    \cup { Json(<< <<"location_code", l>> >>) : l \in LocationInputs }
    \cup { Json(<< <<"order_number", o>>, <<"location_code", l>> >>) :
             o \in OrderInputs, l \in LocationInputs }

\* what the database does while a request is handled
ApiDbBehaviours ==
  { [fail |-> "connect", rows |-> <<>>], [fail |-> "execute", rows |-> <<>>],
    [fail |-> "none", rows |-> <<>>],
    [fail |-> "none", rows |-> <<FullRow>>],
    [fail |-> "none", rows |-> <<NullRow>>] }

\* a request that no validator call answers leaves the validator's record
\* of its last call empty
NoValidatorCall ==
  /\ call' = NoCall
  /\ outcome' = NoOutcome
  /\ db_reply' = NoDb
  /\ select_calls' = 0
  /\ sql_log' = <<>>
  /\ UNCHANGED << exclude_from_validation, configured, open_connections,
                  open_cursors >>

Respond(endpoint, body, reply) ==
  /\ request' = [endpoint |-> endpoint, body |-> body]
  /\ response' = [status |-> reply.status, body |-> reply.body]
  /\ downstream' = reply.calls
  /\ UNCHANGED << phase, handles >>

\* the answer of a handler that leaves the download dictionary alone
Answer(endpoint, body, reply) ==
  /\ Respond(endpoint, body, reply)
  /\ UNCHANGED side_vars

\* POST /api/validate-order
ApiValidateOrder ==
  /\ phase = "serving"
  /\ \E body \in ValidateOrderBodies, db \in ApiDbBehaviours :
       LET gate == ValidateOrderGate(handles.order_validator, body)
       IN IF gate.answered
          THEN /\ NoValidatorCall
               /\ Answer("/api/validate-order", body, gate.reply)
          ELSE /\ ValidateOrderCall(gate.order_number, gate.location_code, db)
               /\ Answer("/api/validate-order", body,
                         ValidateOrderReply(outcome', gate.order_number,
                                            gate.location_code))

QueryBodies ==
  { NoJson, BadJson, Json(<<>>),
    Json(<< <<"query", PyStr(<<>>)>> >>),
    Json(<< <<"query", PyStr(<<"open", " ", "bugs">>)>> >>) }

\* POST /api/query
ApiQuery ==
  /\ phase = "serving"
  /\ \E body \in QueryBodies, service \in ServiceOutcomes :
       /\ NoValidatorCall
       /\ Answer("/api/query", body,
                 ApiQueryReply(handles.jira_service, body, service))

SecurityBodies ==
  { NoJson, BadJson, Json(<<>>),
    Json(<< <<"issue_key", PyStr(<<>>)>> >>),
    Json(<< <<"issue_key", PyStr(<<" ", "sec-1">>)>> >>) }

\* POST /api/security-analysis
ApiSecurityAnalysis ==
  /\ phase = "serving"
  /\ \E body \in SecurityBodies, service \in ServiceOutcomes :
       /\ NoValidatorCall
       /\ Answer("/api/security-analysis", body,
                 ApiSecurityAnalysisReply(handles.security_service, body, service))

SearchBodies ==
  { NoJson, BadJson, Json(<<>>),
    Json(<< <<"log_type", PyStr(<<"3d-secure">>)>> >>),
    Json(<< <<"log_type", PyStr(<<"3d-secure">>)>>,
            <<"session_id", PyStr(<<"s1", " ">>)>> >>),
    Json(<< <<"log_type", PyStr(<<"3d-secure">>)>>,
            <<"session_id", PyStr(<<"s1">>)>>,
            <<"max_results", PyStr(<<"many">>)>> >>),
    Json(<< <<"log_type", PyStr(<<"3d-secure">>)>>,
            <<"session_id", PyStr(<<"s1">>)>>,
            <<"time_range", PyStr(<<"1h">>)>>,
            <<"max_results", PyStr(<<"5">>)>>,
            <<"merchant_id", PyStr(<<" ", "m1">>)>>,
            <<"gateway", PyStr(<<>>)>> >>) }

\* POST /api/search-logs
ApiSearchLogs ==
  /\ phase = "serving"
  /\ \E body \in SearchBodies, es \in EsReplies :
       /\ NoValidatorCall
       /\ Answer("/api/search-logs", body,
                 ApiSearchLogsReply(handles.elasticsearch_service, body, es))

ParameterMaps ==
  { <<>>,
    << <<"enterprise_release", <<"r1">>>>, <<"email_id", <<"a", "@", "b", ".com">>>> >>,
    << <<"enterprise_release", <<" ", "r1", ".", "r1">>>>,
       <<"email_id", <<"a", "@", "b">>>>, <<"branch", <<"a">>>> >>,
    << <<"enterprise_release", <<"r1", "/">>>>, <<"email_id", <<"a", "b">>>> >>,
    << <<"enterprise_release", <<" ">>>>, <<"email_id", <<"a", "@", "b", ".com">>>> >>,
    << <<"email_id", <<" ">>>> >> }

JobTypeInputs ==
  { PyStr(<<>>), PyStr(<<"fraud_story_prediction">>),
    PyStr(<<" ", "fraud_story_prediction", " ">>), PyStr(<<"nightly_build">>) }

JenkinsBodies ==
  { NoJson, BadJson, Json(<<>>) }
    \cup { Json(<< <<"job_type", j>> >>) : j \in JobTypeInputs }
    \cup { Json(<< <<"job_type", j>>, <<"parameters", m>> >>) :
             j \in JobTypeInputs, m \in ParameterMaps }

\* POST /api/jenkins-trigger-job
TriggerJenkinsJob ==
  /\ phase = "serving"
  /\ \E body \in JenkinsBodies, jenkins \in JenkinsReplies :
       /\ NoValidatorCall
       /\ Answer("/api/jenkins-trigger-job", body,
                 TriggerJenkinsJobReply(handles.jenkins_service, body, jenkins))

\* ------------------------------------------------------------------------
\* app.py: the security reports and their download dictionary
\* ------------------------------------------------------------------------

\* ticks of the clock in one hour, the last tick of a run, and the number
\* of reports generated in a run
Hour == 2
MaxClock == Hour + 2
MaxReports == 2

\* del d[k]
Del(d, k) == SelectSeq(d, LAMBDA pair : pair[1] # k)

\* the dict process_security_analysis_command returns when it has written
\* report number n; the temporary file of report n is named n
ReportResult(n) ==
  [ success |-> TRUE, ticket_key |-> <<"SEC-1">>, document_path |-> n,
    download_id |-> n, filename |-> <<"Security_Analysis_", "SEC-1">> ]

\* what process_security_analysis_command does: a report, a failure dict,
\* or an exception that escapes its handler
CommandOutcomes == {"report", "failure", "raise"}

\* the entry process_security_command stores
DownloadEntry(result, created) ==
  [ path |-> result.document_path, filename |-> result.filename,
    created |-> created, ticket_key |-> result.ticket_key ]

ExpiredAtOneHour(info, current_time) == current_time - info.created >= Hour

\* current_time - info['created'] > timedelta(hours=1)
Expired(info, current_time) == current_time - info.created > Hour

\* the loop of cleanup_old_downloads over the expired ids; os.unlink raises
\* on the files of unlink_fails
RECURSIVE CleanupLoop(_, _, _, _)
CleanupLoop(expired_files, downloads, disk, unlink_fails) ==
  IF expired_files = <<>>
  THEN [download_files |-> downloads, files |-> disk]
  ELSE
    LET file_id == Head(expired_files)
        file_path == Get(downloads, file_id).path
    IN IF file_path \in disk /\ file_path \in unlink_fails
       THEN CleanupLoop(Tail(expired_files), downloads, disk, unlink_fails)
       ELSE CleanupLoop(Tail(expired_files), Del(downloads, file_id),
                        disk \ {file_path}, unlink_fails)

\* cleanup_old_downloads
CleanupOldDownloads(downloads, disk, current_time, unlink_fails) ==
  LET expired_files ==
        SelectSeq(Keys(downloads),
                  LAMBDA file_id : Expired(Get(downloads, file_id), current_time))
      left == CleanupLoop(expired_files, downloads, disk, unlink_fails)
  IN [ download_files |-> left.download_files, files |-> left.files,
       expired_files |-> expired_files ]

SecurityCommandGateNoValidation(handle, body) ==
  IF handle = "None"
  THEN [ answered |-> TRUE,
         reply |-> Reply(503, Failure(<<"Jira service not available. Please check Jira and OpenAI configuration.">>), <<>>) ]
  ELSE IF body.json = "malformed"
  THEN [ answered |-> TRUE,
         reply |-> Reply(500, Failure(<<"Failed to process command: ", "bad request">>), <<>>) ]
  ELSE [ answered |-> FALSE,
         user_command |-> Strip(Str(Get(body.data, "command"))) ]

\* process_security_command up to the call of the Jira service: a reply, or
\* the command to process
SecurityCommandGate(handle, body) ==
  IF handle = "None"
  THEN [ answered |-> TRUE,
         reply |-> Reply(503, Failure(<<"Jira service not available. Please check Jira and OpenAI configuration.">>), <<>>) ]
  ELSE IF body.json = "malformed"
  THEN [ answered |-> TRUE,
         reply |-> Reply(500, Failure(<<"Failed to process command: ", "bad request">>), <<>>) ]
  ELSE IF NoData(body) \/ ~Truthy(Get(body.data, "command"))
  THEN [ answered |-> TRUE,
         reply |-> Reply(400, Failure(<<"Missing required field: command">>), <<>>) ]
  ELSE IF Get(body.data, "command").kind # "str"
  THEN [ answered |-> TRUE,
         reply |-> Reply(500, Failure(<<"Failed to process command: ", "no attribute 'strip'">>), <<>>) ]
  ELSE IF Strip(Get(body.data, "command").text) = <<>>
  THEN [ answered |-> TRUE,
         reply |-> Reply(400, Failure(<<"Command cannot be empty">>), <<>>) ]
  ELSE [ answered |-> FALSE,
         user_command |-> Strip(Get(body.data, "command").text) ]

\* process_security_command after the Jira service has answered: the reply
\* and what is left of the dictionary and of the files
SecurityCommandStore(user_command, service, downloads, disk, n, current_time, unlink_fails) ==
  LET made == << [ service |-> "jira_service",
                   method |-> "process_security_analysis_command",
                   args |-> <<user_command>> ] >>
      result == ReportResult(n)
      swept == CleanupOldDownloads(
                 Put(downloads, result.download_id,
                     DownloadEntry(result, current_time)),
                 disk \cup {result.document_path}, current_time, unlink_fails)
  IN CASE service = "report" ->
            [ reply |-> Reply(200,
                         [ success |-> TRUE, ticket_key |-> result.ticket_key,
                           download_id |-> result.download_id,
                           filename |-> result.filename,
                           download_url |-> <<"/api/download-security-report/",
                                              result.download_id>> ],
                         made),
              download_files |-> swept.download_files, files |-> swept.files,
              issued |-> n,
              unit |-> [ op |-> "cleanup_old_downloads",
                         expired_files |-> swept.expired_files ] ]
       [] service = "failure" ->
            [ reply |-> Reply(400, Failure(<<"service error">>), made),
              download_files |-> downloads, files |-> disk, issued |-> n - 1,
              unit |-> NoUnit ]
       [] service = "raise" ->
            [ reply |-> Reply(500, Failure(<<"Failed to process command: ",
                                             "service exception">>), made),
              download_files |-> downloads, files |-> disk, issued |-> n - 1,
              unit |-> NoUnit ]

CommandInputs ==
  { PyStr(<<>>), PyStr(<<" ">>), PyNum(<<"7">>),
    PyStr(<<" ", "analyze", " ", "SEC-1">>) }

CommandBodies ==
  { NoJson, BadJson, Json(<<>>) }
    \cup { Json(<< <<"command", c>> >>) : c \in CommandInputs }

\* POST /api/process-security-command
ProcessSecurityCommand ==
  /\ phase = "serving"
  /\ issued < MaxReports
  /\ \E body \in CommandBodies, service \in CommandOutcomes,
        unlink_fails \in SUBSET files :
       LET gate == SecurityCommandGate(handles.jira_service, body)
       IN IF gate.answered
          THEN /\ Respond("/api/process-security-command", body, gate.reply)
               /\ UNCHANGED << download_files, files, issued, unit >>
          ELSE LET done == SecurityCommandStore(gate.user_command, service,
                             download_files, files, issued + 1, now,
                             unlink_fails)
               IN /\ Respond("/api/process-security-command", body, done.reply)
                  /\ download_files' = done.download_files
                  /\ files' = done.files
                  /\ issued' = done.issued
                  /\ unit' = done.unit
  /\ NoValidatorCall
  /\ UNCHANGED << now, threads >>

NextApi ==
  \/ CreateApp
  \/ ApiValidateOrder
  \/ ApiQuery
  \/ ApiSecurityAnalysis
  \/ ApiSearchLogs
  \/ TriggerJenkinsJob
  \/ ProcessSecurityCommand

SpecApi == Init /\ [][NextApi]_vars

\* ------------------------------------------------------------------------
\* app.py: downloads, one request at a time
\* ------------------------------------------------------------------------

NotFound(error) == Reply(404, [error |-> error], <<>>)

DownloadOutcomeKeepsEntry(file_id, downloads, disk, send_fails, unlink_fails) ==
  IF ~HasKey(downloads, file_id)
  THEN [ reply |-> NotFound(<<"File not found or expired">>),
         download_files |-> downloads, files |-> disk ]
  ELSE
    LET file_info == Get(downloads, file_id)
    IN IF file_info.path \notin disk
       THEN [ reply |-> NotFound(<<"File not found on server">>),
              download_files |-> downloads, files |-> disk ]
       ELSE IF send_fails
       THEN [ reply |-> Reply(500, [error |-> <<"Download failed">>], <<>>),
              download_files |-> downloads, files |-> disk ]
       ELSE [ reply |-> Reply(200, [ file |-> file_info.path,
                                     download_name |-> file_info.filename ], <<>>),
              download_files |-> downloads, files |-> disk ]

\* download_security_report served without interruption: the reply and what
\* is left of the dictionary and of the files; send_file or os.unlink raise
\* when send_fails or unlink_fails say so
DownloadOutcome(file_id, downloads, disk, send_fails, unlink_fails) ==
  IF ~HasKey(downloads, file_id)
  THEN [ reply |-> NotFound(<<"File not found or expired">>),
         download_files |-> downloads, files |-> disk ]
  ELSE
    LET file_info == Get(downloads, file_id)
    IN IF file_info.path \notin disk
       THEN [ reply |-> NotFound(<<"File not found on server">>),
              download_files |-> Del(downloads, file_id), files |-> disk ]
       ELSE IF send_fails
       THEN [ reply |-> Reply(500, [error |-> <<"Download failed">>], <<>>),
              download_files |-> downloads, files |-> disk ]
       ELSE IF unlink_fails
       THEN [ reply |-> Reply(200, [ file |-> file_info.path,
                                     download_name |-> file_info.filename ], <<>>),
              download_files |-> downloads, files |-> disk ]
       ELSE [ reply |-> Reply(200, [ file |-> file_info.path,
                                     download_name |-> file_info.filename ], <<>>),
              download_files |-> Del(downloads, file_id),
              files |-> disk \ {file_info.path} ]

\* the ids download requests name
FileIds == 1..MaxReports

\* GET /api/download-security-report/<file_id>
DownloadSecurityReport ==
  /\ phase = "serving"
  /\ \E file_id \in FileIds, send_fails \in BOOLEAN, unlink_fails \in BOOLEAN :
       LET done == DownloadOutcome(file_id, download_files, files, send_fails,
                                   unlink_fails)
       IN /\ Respond("/api/download-security-report", file_id, done.reply)
          /\ download_files' = done.download_files
          /\ files' = done.files
  /\ NoValidatorCall
  /\ UNCHANGED << issued, now, threads, unit >>

\* time passes
Tick ==
  /\ now < MaxClock
  /\ now' = now + 1
  /\ UNCHANGED << validator_vars, app_vars, download_files, files, issued,
                  threads, unit >>

\* a report file is removed from the temporary directory by something other
\* than the application
FileRemoved ==
  /\ \E file_path \in files : files' = files \ {file_path}
  /\ UNCHANGED << validator_vars, app_vars, download_files, issued, now,
                  threads, unit >>

\* create_app has run and every service came up
InitServing ==
  /\ ValidatorInit
  /\ phase = "serving"
  /\ handles = CreatedHandles(TRUE, "none", FALSE)
  /\ request = NoRequest
  /\ response = NoResponse
  /\ downstream = <<>>
  /\ download_files = NoDownloads
  /\ files = {}
  /\ issued = 0
  /\ now = 0
  /\ threads = [t \in Threads |-> Idle]
  /\ unit = NoUnit

NextDownloads ==
  \/ ProcessSecurityCommand
  \/ DownloadSecurityReport
  \/ Tick
  \/ FileRemoved

SpecDownloads == InitServing /\ [][NextDownloads]_vars

\* ------------------------------------------------------------------------
\* app.py: downloads served at the same time, statement by statement
\* ------------------------------------------------------------------------

\* thread t moves on, the dictionary and the files becoming as given
Step(t, thread, downloads, disk) ==
  /\ threads' = [threads EXCEPT ![t] = thread]
  /\ download_files' = downloads
  /\ files' = disk
  /\ UNCHANGED << validator_vars, app_vars, issued, now, unit >>

\* the handler returns
Done(thread, status, error) ==
  [thread EXCEPT !.pc = "done", !.status = status, !.error = error]

HandlerExceptAs404(thread, exc) ==
  [Done(thread, 404, <<"File not found or expired">>) EXCEPT !.raised = exc]

\* an exception reaches the handler's except clause
HandlerExcept(thread, exc) ==
  [Done(thread, 500, <<"Download failed">>) EXCEPT !.raised = exc]

\* a request for file_id arrives
BeginDownload ==
  \E t \in Threads, file_id \in FileIds :
    /\ phase = "serving"
    /\ threads[t].pc = "idle"
    /\ Step(t, [Idle EXCEPT !.pc = "check", !.file_id = file_id],
            download_files, files)

\* if file_id not in download_files
CheckMembership ==
  \E t \in Threads :
    /\ threads[t].pc = "check"
    /\ Step(t, IF HasKey(download_files, threads[t].file_id)
               THEN [threads[t] EXCEPT !.pc = "lookup"]
               ELSE Done(threads[t], 404, <<"File not found or expired">>),
            download_files, files)

\* file_info = download_files[file_id]
LookupEntry ==
  \E t \in Threads :
    /\ threads[t].pc = "lookup"
    /\ Step(t, IF HasKey(download_files, threads[t].file_id)
               THEN [threads[t] EXCEPT
                       !.pc = "exists",
                       !.file_path = Get(download_files, threads[t].file_id).path]
               ELSE HandlerExcept(threads[t], "KeyError"),
            download_files, files)

\* if not os.path.exists(file_path)
CheckExists ==
  \E t \in Threads :
    /\ threads[t].pc = "exists"
    /\ Step(t, [threads[t] EXCEPT
                  !.pc = IF threads[t].file_path \in files
                         THEN "send" ELSE "del_missing"],
            download_files, files)

\* del download_files[file_id] for a file that is gone
DelMissing ==
  \E t \in Threads :
    /\ threads[t].pc = "del_missing"
    /\ Step(t, IF HasKey(download_files, threads[t].file_id)
               THEN Done(threads[t], 404, <<"File not found on server">>)
               ELSE HandlerExcept(threads[t], "KeyError"),
            Del(download_files, threads[t].file_id), files)

\* response = send_file(file_path, ...)
SendFile ==
  \E t \in Threads :
    /\ threads[t].pc = "send"
    /\ Step(t, IF threads[t].file_path \in files
               THEN [threads[t] EXCEPT !.pc = "unlink"]
               ELSE HandlerExcept(threads[t], "FileNotFoundError"),
            download_files, files)

\* os.unlink(file_path), whose exception skips the del
UnlinkFile ==
  \E t \in Threads :
    /\ threads[t].pc = "unlink"
    /\ Step(t, [threads[t] EXCEPT
                  !.pc = IF threads[t].file_path \in files
                         THEN "del" ELSE "return"],
            download_files, files \ {threads[t].file_path})

\* del download_files[file_id], whose exception is ignored
DelEntry ==
  \E t \in Threads :
    /\ threads[t].pc = "del"
    /\ Step(t, [threads[t] EXCEPT !.pc = "return"],
            Del(download_files, threads[t].file_id), files)

\* return response
ReturnFile ==
  \E t \in Threads :
    /\ threads[t].pc = "return"
    /\ Step(t, Done(threads[t], 200, <<>>), download_files, files)

\* the answer has been sent
EndDownload ==
  \E t \in Threads :
    /\ threads[t].pc = "done"
    /\ Step(t, Idle, download_files, files)

NextConcurrent ==
  \/ ProcessSecurityCommand
  \/ BeginDownload
  \/ CheckMembership
  \/ LookupEntry
  \/ CheckExists
  \/ DelMissing
  \/ SendFile
  \/ UnlinkFile
  \/ DelEntry
  \/ ReturnFile
  \/ EndDownload

SpecConcurrent == InitServing /\ [][NextConcurrent]_vars

\* ------------------------------------------------------------------------
\* config/settings.py: Config and Config.validate
\* ------------------------------------------------------------------------

RequiredJira == <<"JIRA_URL", "JIRA_USERNAME", "JIRA_TOKEN", "OPENAI_API_KEY">>
RequiredOracle == <<"ORACLE_USER", "ORACLE_PASSWORD", "ORACLE_HOST">>
RequiredElasticsearch ==
  <<"ELASTICSEARCH_HOST", "ELASTICSEARCH_USERNAME", "ELASTICSEARCH_PASSWORD">>
RequiredJenkins == <<"JENKINS_URL", "JENKINS_USERNAME", "JENKINS_TOKEN">>
OracleNames == <<"ORACLE_SERVICE", "ORACLE_SID">>

Range(seq) == {seq[i] : i \in DOMAIN seq}

\* the variables validate looks at
ConfigVars ==
  Range(RequiredJira) \cup Range(RequiredOracle) \cup Range(OracleNames)
    \cup Range(RequiredElasticsearch) \cup Range(RequiredJenkins)

\* a variable of the environment: not there, there and empty, or there
Unset == [kind |-> "unset", text |-> <<>>]
EnvValues == { Unset, PyStr(<<>>), PyStr(<<"v">>) }

\* os.environ.get(name) and os.environ.get(name, 'localhost')
EnvironGet(environ, name) ==
  IF environ[name] # Unset THEN environ[name]
  ELSE IF name \in {"ORACLE_HOST", "ELASTICSEARCH_HOST"}
  THEN PyStr(<<"localhost">>)
  ELSE PyNone

\* the attributes of Config once the class body has run
ConfigOf(environ) == [name \in ConfigVars |-> EnvironGet(environ, name)]

\* [var for var, value in required.items() if not value]
Missing(config, required) ==
  SelectSeq(required, LAMBDA name : ~Truthy(config[name]))

ConfigValidateStrict(config) ==
  LET missing_jira == Missing(config, RequiredJira)
      missing_oracle == Missing(config, RequiredOracle)
      missing_elasticsearch == Missing(config, RequiredElasticsearch)
      missing_jenkins == Missing(config, RequiredJenkins)
  IN IF missing_jira # <<>>
     THEN [result |-> FALSE, errors |-> missing_jira, warnings |-> <<>>]
     ELSE IF missing_oracle # <<>>
     THEN [result |-> FALSE, errors |-> missing_oracle, warnings |-> <<>>]
     ELSE IF missing_elasticsearch # <<>>
     THEN [result |-> FALSE, errors |-> missing_elasticsearch, warnings |-> <<>>]
     ELSE IF ~(Truthy(config["ORACLE_SERVICE"]) \/ Truthy(config["ORACLE_SID"]))
     THEN [ result |-> FALSE, errors |-> OracleNames,
            warnings |-> missing_elasticsearch \o missing_jenkins ]
     ELSE [ result |-> TRUE, errors |-> <<>>,
            warnings |-> missing_elasticsearch \o missing_jenkins ]

\* Config.validate: what it returns and the names it logs as errors and as
\* warnings
ConfigValidate(config) ==
  LET missing_jira == Missing(config, RequiredJira)
      missing_oracle == Missing(config, RequiredOracle)
      missing_elasticsearch == Missing(config, RequiredElasticsearch)
      missing_jenkins == Missing(config, RequiredJenkins)
  IN IF missing_jira # <<>>
     THEN [result |-> FALSE, errors |-> missing_jira, warnings |-> <<>>]
     ELSE IF missing_oracle # <<>>
     THEN [result |-> FALSE, errors |-> missing_oracle, warnings |-> <<>>]
     ELSE IF ~(Truthy(config["ORACLE_SERVICE"]) \/ Truthy(config["ORACLE_SID"]))
     THEN [ result |-> FALSE, errors |-> OracleNames,
            warnings |-> missing_elasticsearch \o missing_jenkins ]
     ELSE [ result |-> TRUE, errors |-> <<>>,
            warnings |-> missing_elasticsearch \o missing_jenkins ]

\* the environments the application is started in: every variable there,
\* up to two of the variables validate insists on changed, and any of the
\* Elasticsearch and Jenkins variables taken away
FullEnviron == [name \in ConfigVars |-> PyStr(<<"v">>)]
Insisted == Range(RequiredJira) \cup Range(RequiredOracle) \cup Range(OracleNames)
OneChanged(environs) ==
  { [e EXCEPT ![name] = value] :
      e \in environs, name \in Insisted, value \in EnvValues }
Environs ==
  { [name \in ConfigVars |-> IF name \in gone THEN Unset ELSE e[name]] :
      e \in OneChanged(OneChanged({FullEnviron})),
      gone \in SUBSET (Range(RequiredElasticsearch) \cup Range(RequiredJenkins)) }

\* the process has started in some environment and Config is loaded
InitConfig ==
  /\ Booted
  /\ unit \in { [ op |-> "Config", environ |-> e, config |-> ConfigOf(e),
                  returned |-> FALSE,
                  validated |-> [ result |-> FALSE, errors |-> <<>>,
                                  warnings |-> <<>> ] ] : e \in Environs }

\* Config.validate()
Validate ==
  /\ unit.op = "Config"
  /\ ~unit.returned
  /\ unit' = [unit EXCEPT !.returned = TRUE,
                          !.validated = ConfigValidate(unit.config)]
  /\ UNCHANGED << validator_vars, app_vars, download_vars >>

NextConfig == Validate

SpecConfig == InitConfig /\ [][NextConfig]_vars

\* ------------------------------------------------------------------------
\* JenkinsService.trigger_job called on its own
\* ------------------------------------------------------------------------

JobTypeArgs == { <<"fraud_story_prediction">>, <<"nightly_build">> }

TriggerParameterArgs ==
  ParameterMaps
    \cup { << <<"branch", <<"a">>>>, <<"email_id", <<"a", "@", "b", ".com">>>>,
              <<"enterprise_release", <<"r1">>>> >> }

\* a call of trigger_job is about to be made
InitJenkins ==
  /\ Booted
  /\ unit \in { [ op |-> "trigger_job", job_type |-> j, parameters |-> m,
                  reply |-> r, returned |-> FALSE,
                  result |-> [success |-> FALSE], posts |-> <<>> ] :
                j \in JobTypeArgs, m \in TriggerParameterArgs,
                r \in JenkinsReplies }

\* the call is made
TriggerJobCall ==
  /\ unit.op = "trigger_job"
  /\ ~unit.returned
  /\ LET done == TriggerJob(unit.job_type, unit.parameters, unit.reply)
     IN unit' = [unit EXCEPT !.returned = TRUE, !.result = done.result,
                             !.posts = done.posts]
  /\ UNCHANGED << validator_vars, app_vars, download_vars >>

NextJenkins == TriggerJobCall

SpecJenkins == InitJenkins /\ [][NextJenkins]_vars

\* ------------------------------------------------------------------------
\* The methods of JenkinsService called on their own
\* ------------------------------------------------------------------------

JenkinsMethods ==
  {"get_job_info", "trigger_job", "get_build_status", "validate_parameters"}

NoJenkinsResult == [success |-> FALSE]

\* a call of one of the methods is about to be made
InitJenkinsService ==
  /\ Booted
  /\ unit \in { [ op |-> "JenkinsService", method |-> m, job_type |-> j,
                  parameters |-> p, reply |-> r, get_reply |-> g,
                  returned |-> FALSE, result |-> NoJenkinsResult,
                  requests |-> <<>>, triggered |-> FALSE,
                  trigger_result |-> NoJenkinsResult ] :
                m \in JenkinsMethods, j \in JobTypeArgs,
                p \in TriggerParameterArgs, r \in JenkinsReplies,
                g \in {x \in JenkinsGetReplies : x.building} }

JenkinsCall(method) ==
  /\ unit.op = "JenkinsService"
  /\ unit.method = method
  /\ ~unit.returned
  /\ UNCHANGED << validator_vars, app_vars, download_vars >>

GetJobInfoCall ==
  /\ JenkinsCall("get_job_info")
  /\ LET done == GetJobInfo(unit.job_type, unit.get_reply, unit.get_reply)
     IN unit' = [unit EXCEPT !.returned = TRUE, !.result = done.result,
                             !.requests = done.gets]

TriggerJobAlone ==
  /\ JenkinsCall("trigger_job")
  /\ LET done == TriggerJob(unit.job_type, unit.parameters, unit.reply)
     IN unit' = [unit EXCEPT !.returned = TRUE, !.result = done.result,
                             !.requests = done.posts]

GetBuildStatusCall ==
  /\ JenkinsCall("get_build_status")
  /\ LET done == GetBuildStatus(unit.job_type, 7, unit.get_reply)
     IN unit' = [unit EXCEPT !.returned = TRUE, !.result = done.result,
                             !.requests = done.gets]

ValidateParametersCall ==
  /\ JenkinsCall("validate_parameters")
  /\ unit' = [unit EXCEPT
                !.returned = TRUE,
                !.result = ValidateParameters(unit.job_type, unit.parameters)]

\* trigger_job is called with the validated_parameters of a validation that
\* succeeded
TriggerValidated ==
  /\ unit.op = "JenkinsService"
  /\ unit.method = "validate_parameters"
  /\ unit.returned
  /\ unit.result.success
  /\ ~unit.triggered
  /\ LET done == TriggerJob(unit.job_type, unit.result.validated_parameters,
                            unit.reply)
     IN unit' = [unit EXCEPT !.triggered = TRUE,
                             !.trigger_result = done.result,
                             !.requests = done.posts]
  /\ UNCHANGED << validator_vars, app_vars, download_vars >>

NextJenkinsService ==
  \/ GetJobInfoCall
  \/ TriggerJobAlone
  \/ GetBuildStatusCall
  \/ ValidateParametersCall
  \/ TriggerValidated

SpecJenkinsService == InitJenkinsService /\ [][NextJenkinsService]_vars

\* ------------------------------------------------------------------------
\* create_app with what happened in it on record
\* ------------------------------------------------------------------------

\* the process starts: what Config.validate() returns and which step of
\* create_app raises are fixed
InitBoot ==
  /\ Booted
  /\ unit \in { [ op |-> "create_app", config_valid |-> v, failure |-> f,
                  jenkins_fails |-> j, returned |-> FALSE ] :
                v \in BOOLEAN, f \in InitFailures, j \in BOOLEAN }

\* create_app
CreateAppCall ==
  /\ phase = "boot"
  /\ unit.op = "create_app"
  /\ ~unit.returned
  /\ handles' = CreatedHandles(unit.config_valid, unit.failure,
                               unit.jenkins_fails)
  /\ phase' = "serving"
  /\ unit' = [unit EXCEPT !.returned = TRUE]
  /\ UNCHANGED << request, response, downstream >>
  /\ UNCHANGED validator_vars
  /\ UNCHANGED download_vars

NextBoot == CreateAppCall \/ ApiValidateOrder

SpecBoot == InitBoot /\ [][NextBoot]_vars

\* ------------------------------------------------------------------------
\* /api/search-logs with one log-type-specific filter
\* ------------------------------------------------------------------------

\* the values a request gives a log-type-specific filter
FilterValues == { PyStr(<<" ", "x", " ">>), PyStr(<<" ">>), PyNum(<<"7">>) }

\* Elasticsearch answers the search, or does not answer
AnsweredOrNot == { es \in EsReplies : es.body \in {"hits", "none"} }

\* a request naming a log type, a session and one filter
FilteredSearchBody(log_type, filter_name, value) ==
  Json(<< <<"log_type", PyStr(log_type)>>,
          <<"session_id", PyStr(<<"s1">>)>>,
          <<filter_name, value>> >>)

\* POST /api/search-logs
ApiSearchLogsFiltered ==
  /\ phase = "serving"
  /\ \E t \in DOMAIN LogConfigs, f \in DOMAIN LogSpecificFilters,
        value \in FilterValues, es \in AnsweredOrNot :
       LET body == FilteredSearchBody(LogConfigs[t][1], LogSpecificFilters[f],
                                      value)
       IN /\ NoValidatorCall
          /\ Answer("/api/search-logs", body,
                    ApiSearchLogsReply(handles.elasticsearch_service, body, es))

SpecSearch == InitServing /\ [][ApiSearchLogsFiltered]_vars

\* ------------------------------------------------------------------------
\* ElasticsearchService._build_search_query called on its own
\* ------------------------------------------------------------------------

\* the time_range, log_level and component values filters carry
TimeRangeArgs ==
  { PyStr(<<"1h">>), PyStr(<<"24h">>), PyStr(<<"30d">>), PyStr(<<"90d">>),
    PyStr(<<>>), PyNone, PyNum(<<"7">>) }
LogLevelArgs == { PyStr(<<"all">>), PyStr(<<"error">>), PyNone, PyNum(<<"7">>) }
ComponentArgs == { PyNone, PyStr(<<"acs">>) }

\* the filters dicts: time_range absent or given, with or without the
\* filter names that are also custom filters of a log type
FilterArgs ==
  { << <<"log_level", l>>, <<"component", c>> >> :
      l \in LogLevelArgs, c \in ComponentArgs }
  \cup
  { << <<"time_range", t>>, <<"log_level", l>>,
       <<"max_results", PyNum(<<"5">>)>>, <<"component", c>> >> \o extra :
      t \in TimeRangeArgs, l \in LogLevelArgs, c \in ComponentArgs,
      extra \in { <<>>, << <<"gateway", PyStr(<<"g1">>)>>,
                           <<"decision", PyStr(<<>>)>> >> } }

SessionArgs == { <<"s1">> }

\* a call of _build_search_query for a known log type is about to be made
InitQuery ==
  /\ Booted
  /\ unit \in { [ op |-> "_build_search_query", session_id |-> sid,
                  log_type |-> LogConfigs[i][1], filters |-> f,
                  returned |-> FALSE, built |-> [raised |-> FALSE] ] :
                sid \in SessionArgs, i \in DOMAIN LogConfigs, f \in FilterArgs }

\* the call is made
BuildSearchQueryCall ==
  /\ unit.op = "_build_search_query"
  /\ ~unit.returned
  /\ unit' = [unit EXCEPT
                !.returned = TRUE,
                !.built = BuildSearchQuery(unit.session_id,
                                           Get(LogConfigs, unit.log_type),
                                           unit.filters)]
  /\ UNCHANGED << validator_vars, app_vars, download_vars >>

NextQuery == BuildSearchQueryCall

SpecQuery == InitQuery /\ [][NextQuery]_vars

\* ------------------------------------------------------------------------
\* services/fraud_analysis_service.py: identity claims across JWT tokens
\* ------------------------------------------------------------------------

\* the longest list of tokens analysed
MaxTokens == 2

\* self.identity_fields
IdentityFields ==
  << <<"user_id", <<"user_id", "userId", "uid", "sub", "user">>>>,
     <<"account_number", <<"account_number", "accountNumber", "acct_num",
                           "account_id", "account">>>>,
     <<"mdn", <<"mdn", "mobile_number", "phone", "msisdn",
                "mobile_directory_number">>>>,
     <<"customer_id", <<"customer_id", "customerId", "cust_id", "customer">>>>,
     <<"email", <<"email", "email_address", "user_email", "email_id">>>>,
     <<"session_id", <<"session_id", "sessionId", "sess_id", "session">>>> >>

\* a token as found in a log: its length, and the payload it decodes to
\* when it decodes
Jwt(length, decodes, payload) ==
  [length |-> length, decodes |-> decodes, payload |-> payload]

JwtTokens ==
  { Jwt(3, TRUE, << <<"sub", PyStr(<<"u1">>)>>, <<"email", PyStr(<<"e1">>)>> >>),
    Jwt(3, TRUE, << <<"user_id", PyStr(<<"u2">>)>>, <<"sub", PyStr(<<"u1">>)>> >>),
    Jwt(4, TRUE, << <<"uid", PyStr(<<"u1">>)>> >>),
    Jwt(4, FALSE, <<>>),
    Jwt(5, TRUE, << <<"iss", PyStr(<<"idp">>)>> >>) }

\* the entries _extract_jwt_tokens_from_logs makes
TokenInfos ==
  { [token |-> t, log_id |-> l, timestamp |-> "t1"] :
      t \in JwtTokens, l \in {"l1", "l2"} }

\* f"jwt_{log_id}_{len(token)}"
TokenId(token_info) == <<"jwt", token_info.log_id, token_info.token.length>>

\* _extract_identity_claims
ExtractIdentityClaims(payload) ==
  LET carried == SelectSeq(IdentityFields,
                   LAMBDA entry : \E i \in DOMAIN entry[2] :
                                    HasKey(payload, entry[2][i]))
      first(possible_fields) ==
        possible_fields[CHOOSE i \in DOMAIN possible_fields :
                          /\ HasKey(payload, possible_fields[i])
                          /\ \A j \in 1..(i - 1) :
                               ~HasKey(payload, possible_fields[j])]
  IN [i \in 1..Len(carried) |->
        << carried[i][1],
           [ value |-> Get(payload, first(carried[i][2])),
             source_field |-> first(carried[i][2]) ] >>]
     \o << <<"token_metadata", [issuer |-> Get(payload, "iss")]>> >>

\* _validate_individual_jwt_token
ValidateIndividualJwtToken(token_info) ==
  [ token_id |-> TokenId(token_info),
    validation_status |->
      IF token_info.token.decodes THEN "DECODED" ELSE "INVALID_STRUCTURE",
    identity_data |->
      IF token_info.token.decodes
      THEN ExtractIdentityClaims(token_info.token.payload) ELSE <<>> ]

NoGroup == [values |-> <<>>, tokens |-> <<>>, timestamps |-> <<>>]

\* the inner loop of _group_tokens_by_identity over identity_data.items()
RECURSIVE GroupIdentityData(_, _, _)
GroupIdentityData(identity_data, token_info, identity_groups) ==
  IF identity_data = <<>> THEN identity_groups
  ELSE
    LET identity_type == Head(identity_data)[1]
        data == Head(identity_data)[2]
        group == IF HasKey(identity_groups, identity_type)
                 THEN Get(identity_groups, identity_type) ELSE NoGroup
    IN IF identity_type = "token_metadata"
       THEN GroupIdentityData(Tail(identity_data), token_info, identity_groups)
       ELSE GroupIdentityData(
              Tail(identity_data), token_info,
              Put(identity_groups, identity_type,
                  [ values |-> Append(group.values, Str(data.value)),
                    tokens |-> Append(group.tokens, token_info),
                    timestamps |-> Append(group.timestamps,
                                          token_info.timestamp) ]))

\* the loop over validations for one token
RECURSIVE GroupValidations(_, _, _)
GroupValidations(validations, token_info, identity_groups) ==
  IF validations = <<>> THEN identity_groups
  ELSE GroupValidations(
         Tail(validations), token_info,
         IF Head(validations).token_id = TokenId(token_info)
         THEN GroupIdentityData(Head(validations).identity_data, token_info,
                                identity_groups)
         ELSE identity_groups)

\* _group_tokens_by_identity
RECURSIVE GroupTokens(_, _, _)
GroupTokens(jwt_tokens, validations, identity_groups) ==
  IF jwt_tokens = <<>> THEN identity_groups
  ELSE GroupTokens(Tail(jwt_tokens), validations,
                   GroupValidations(validations, Head(jwt_tokens),
                                    identity_groups))

GroupTokensByIdentity(jwt_tokens, validations) ==
  GroupTokens(jwt_tokens, validations, <<>>)

\* the checks of the loop over identity_groups.items()
ConsistencyCheck(identity_type, token_data) ==
  IF Cardinality(Range(token_data.values)) > 1
  THEN [ check_type |-> "IDENTITY_INCONSISTENCY",
         identity_field |-> identity_type,
         status |-> "RISK", severity |-> "HIGH",
         unique_values |-> Range(token_data.values),
         token_count |-> Len(token_data.tokens) ]
  ELSE [ check_type |-> "IDENTITY_CONSISTENT",
         identity_field |-> identity_type,
         status |-> "PASS", severity |-> "INFO",
         unique_values |-> Range(token_data.values),
         token_count |-> Len(token_data.tokens) ]

NoJwtTokens ==
  [ check_type |-> "NO_JWT_TOKENS", identity_field |-> "",
    status |-> "INFO", severity |-> "", unique_values |-> {},
    token_count |-> 0 ]

\* _analyze_identity_consistency
AnalyzeIdentityConsistency(jwt_tokens) ==
  IF jwt_tokens = <<>> THEN << NoJwtTokens >>
  ELSE
    LET token_validations ==
          [i \in 1..Len(jwt_tokens) |->
             ValidateIndividualJwtToken(jwt_tokens[i])]
        identity_groups == GroupTokensByIdentity(jwt_tokens, token_validations)
    IN [i \in 1..Len(identity_groups) |->
          ConsistencyCheck(identity_groups[i][1], identity_groups[i][2])]

\* the lists of tokens the analysis is called with
JwtTokenLists ==
  UNION { [1..n -> TokenInfos] : n \in 0..MaxTokens }

InitIdentity ==
  /\ Booted
  /\ unit \in { [ op |-> "_analyze_identity_consistency", jwt_tokens |-> l,
                  returned |-> FALSE, checks |-> <<>> ] :
                l \in JwtTokenLists }

\* the call is made
AnalyzeIdentityConsistencyCall ==
  /\ unit.op = "_analyze_identity_consistency"
  /\ ~unit.returned
  /\ unit' = [unit EXCEPT
                !.returned = TRUE,
                !.checks = AnalyzeIdentityConsistency(unit.jwt_tokens)]
  /\ UNCHANGED << validator_vars, app_vars, download_vars >>

NextIdentity == AnalyzeIdentityConsistencyCall

SpecIdentity == InitIdentity /\ [][NextIdentity]_vars

\* ------------------------------------------------------------------------
\* services/security_service.py: the security analysis of one issue
\* ------------------------------------------------------------------------

\* the names the module binds: its imports and its own definitions
SecurityModuleNames ==
  { "openai", "logging", "Dict", "Any", "Config", "SecurityAnalysisResult",
    "JiraService", "logger", "SecurityService" }

\* a value json.loads returns
JsonDict(items) == [kind |-> "dict", items |-> items]
JsonList == [kind |-> "list", items |-> <<>>]

\* what the chat completion answers: the content, and what a JSON parser
\* makes of the stripped content
LlmContent(text, valid, value) ==
  [raises |-> FALSE, content |-> PyStr(text), valid |-> valid, value |-> value]

FullAnalysis(risk_level) ==
  JsonDict(<< <<"analysis", PyStr(<<"card data exposed">>)>>,
              <<"risk_level", PyStr(<<risk_level>>)>>,
              <<"recommendations", PyStr(<<"rotate keys">>)>> >>)

LlmReplies ==
  { [raises |-> TRUE, content |-> PyNone, valid |-> FALSE, value |-> JsonList],
    [raises |-> FALSE, content |-> PyNone, valid |-> FALSE, value |-> JsonList],
    LlmContent(<<>>, FALSE, JsonList),
    LlmContent(<<"The", " ", "risk", " ", "is", " ", "high">>, FALSE, JsonList),
    LlmContent(<<" ", "{", "analysis", ":">>, FALSE, JsonList),
    LlmContent(<<"[", "]">>, TRUE, JsonList),
    LlmContent(<<"{", "risk_level", "}">>, TRUE,
               JsonDict(<< <<"risk_level", PyStr(<<"Low">>)>> >>)) }
  \cup { LlmContent(<<"{", "analysis", r, "}", " ">>, TRUE, FullAnalysis(r)) :
           r \in {"Low", "Medium", "High", "Critical"} }

\* what JiraService.get_issue_details answers
IssueReplies == {"issue", "issue without fields", "nothing", "raises"}

Unable(error) ==
  JsonDict(<< <<"analysis",
                PyStr(<<"Unable to generate security analysis. Error: ">>
                      \o error)>>,
              <<"risk_level", PyStr(<<"Unknown">>)>>,
              <<"recommendations",
                PyStr(<<"Manual security review recommended">>)>> >>)

RawTextAnalysis(content) ==
  JsonDict(<< <<"analysis", PyStr(content)>>,
              <<"risk_level", PyStr(<<"Medium">>)>>,
              <<"recommendations",
                PyStr(<<"Review the detailed analysis above for specific recommendations">>)>> >>)

\* _get_llm_security_analysis
GetLlmSecurityAnalysis(llm) ==
  IF llm.raises THEN Unable(<<"openai error">>)
  ELSE IF llm.content.kind = "none"
  THEN Unable(<<"'NoneType' object has no attribute 'strip'">>)
  ELSE
    LET content == Strip(llm.content.text)
    IN IF "json" \notin SecurityModuleNames
       THEN Unable(<<"name 'json' is not defined">>)
       ELSE IF llm.valid THEN llm.value
       ELSE RawTextAnalysis(content)

\* SecurityAnalysisResult(...).to_dict()
SecurityAnalysisResult(success, issue_key, analysis, risk_level, recommendations, error) ==
  [ success |-> success, issue_key |-> issue_key, analysis |-> analysis,
    risk_level |-> risk_level, recommendations |-> recommendations,
    error |-> error ]

SecurityFailure(issue_key, error) ==
  SecurityAnalysisResult(FALSE, issue_key, PyNone, PyNone, PyNone,
                         PyStr(error))

\* analyze_issue_security_impact
AnalyzeIssueSecurityImpact(issue_key, issue, llm) ==
  IF issue = "raises"
  THEN SecurityFailure(issue_key, <<"Failed to fetch issue ", issue_key>>)
  ELSE IF issue = "nothing"
  THEN SecurityFailure(issue_key,
                       <<"Issue ", issue_key, " not found or inaccessible">>)
  ELSE IF issue = "issue without fields"
  THEN SecurityFailure(issue_key, <<"'fields'">>)
  ELSE
    LET analysis_result == GetLlmSecurityAnalysis(llm)
    IN IF analysis_result.kind # "dict"
       THEN SecurityFailure(issue_key,
                            <<"list indices must be integers or slices, not str">>)
       ELSE IF ~HasKey(analysis_result.items, "analysis")
       THEN SecurityFailure(issue_key, <<"'analysis'">>)
       ELSE SecurityAnalysisResult(
              TRUE, issue_key,
              Get(analysis_result.items, "analysis"),
              Get(analysis_result.items, "risk_level"),
              IF HasKey(analysis_result.items, "recommendations")
              THEN Get(analysis_result.items, "recommendations")
              ELSE PyStr(<<>>),
              PyNone)

InitSecurity ==
  /\ Booted
  /\ unit \in { [ op |-> "analyze_issue_security_impact", issue_key |-> k,
                  issue |-> i, llm |-> l, returned |-> FALSE,
                  llm_analysis |-> JsonList,
                  result |-> SecurityFailure(k, <<>>) ] :
                k \in {"SEC-1", "SEC-2", "SEC-3"}, i \in IssueReplies,
                l \in LlmReplies }

\* the call is made
AnalyzeIssueSecurityImpactCall ==
  /\ unit.op = "analyze_issue_security_impact"
  /\ ~unit.returned
  /\ unit' = [unit EXCEPT
                !.returned = TRUE,
                !.llm_analysis =
                  IF unit.issue = "issue"
                  THEN GetLlmSecurityAnalysis(unit.llm) ELSE JsonList,
                !.result = AnalyzeIssueSecurityImpact(unit.issue_key,
                                                      unit.issue, unit.llm)]
  /\ UNCHANGED << validator_vars, app_vars, download_vars >>

SpecSecurity == InitSecurity /\ [][AnalyzeIssueSecurityImpactCall]_vars

\* ------------------------------------------------------------------------
\* services/fraud_analysis_service.py: the fraud monitoring calls
\* ------------------------------------------------------------------------

\* the most log entries a session has
MaxLogs == 2

\* a log entry: timestamps are numbered, a message is its words in lower
\* case, api_endpoint and level are JSON values; ai is what the chat
\* completion will make of the entry when asked
LogEntry(id, timestamp, level, message, api_endpoint, component) ==
  [ id |-> id, timestamp |-> timestamp, level |-> level, message |-> message,
    api_endpoint |-> api_endpoint, component |-> component,
    source_type |-> "unknown", ai |-> "successful" ]

\* api_keywords, service_components and the patterns of
\* fraud_monitoring_calls, as far as the words of the entries go
ApiKeywords ==
  { "api", "endpoint", "request", "response", "http", "post", "get", "put",
    "delete", "fraud", "risk", "check", "validation", "verify",
    "authentication", "authorization", "payment", "transaction", "gateway",
    "processor", "service", "call", "invoke", "score", "decision", "approve",
    "deny", "block" }
ServiceComponents ==
  { "fraud", "payment", "auth", "gateway", "api", "service", "processor",
    "validator", "risk", "security", "monitor" }

\* _is_api_related_log
IsApiRelatedLog(log_entry) ==
  \/ Truthy(log_entry.api_endpoint)
  \/ \E i \in DOMAIN log_entry.message : log_entry.message[i] \in ApiKeywords
  \/ \E i \in DOMAIN log_entry.component :
       log_entry.component[i] \in ServiceComponents

\* _create_mock_api_logs: three entries, and a fourth for a known fraud type
MockLog(n, level, endpoint, ai) ==
  [ LogEntry(<<"mock_log_", ToString(n)>>, 10 + n, PyStr(<<level>>),
             <<"fraud", "risk", "assessment">>, PyStr(<<endpoint>>),
             <<"fraud-service">>)
    EXCEPT !.source_type = "fraud_detection", !.ai = ai ]

CreateMockApiLogs(fraud_type, ai) ==
  << MockLog(1, "INFO", "/api/fraud/risk-check", ai),
     MockLog(2, "INFO", "/api/payment/process", ai),
     MockLog(3, "WARN", "/api/device/fingerprint", ai) >>
  \o (CASE fraud_type = "digital_fraud" ->
             << MockLog(4, "ERROR", "/api/bot/detection", ai) >>
        [] fraud_type = "transaction_fraud" ->
             << MockLog(4, "INFO", "/api/velocity/check", ai) >>
        [] fraud_type = "assisted_fraud" ->
             << MockLog(4, "WARN", "/api/behavior/analyze", ai) >>
        [] fraud_type = "identity_fraud" ->
             << MockLog(4, "INFO", "/api/identity/verify", ai) >>
        [] OTHER -> <<>>)

\* what the chat completion makes of one log entry: a JSON object that
\* calls the call successful or failed (with error_details a string or
\* null), a text that is not JSON, or an exception
AiOutcomes == {"successful", "failed", "failed, no details", "not json", "raises"}

\* level.lower() of an entry; None has no lower()
LevelIsError(log_entry) == log_entry.level.text \in {<<"ERROR">>, <<"FATAL">>}

\* _create_fallback_analysis
CreateFallbackAnalysis(log_entry) ==
  IF log_entry.level.kind # "str"
  THEN [raised |-> TRUE]
  ELSE [ raised |-> FALSE,
         analysis |->
           [ is_successful |-> ~LevelIsError(log_entry),
             error_details |->
               IF LevelIsError(log_entry)
               THEN PyStr(log_entry.message) ELSE PyNone,
             api_endpoint |-> log_entry.api_endpoint,
             timestamp |-> log_entry.timestamp,
             source_type |-> log_entry.source_type,
             raw_log_id |-> log_entry.id,
             confidence_score |-> "0.3" ] ]

\* _analyze_api_call_with_ai
AnalyzeApiCallWithAi(log_entry, ai) ==
  IF ai \in {"not json", "raises"}
  THEN CreateFallbackAnalysis(log_entry)
  ELSE [ raised |-> FALSE,
         analysis |->
           [ is_successful |-> ai = "successful",
             error_details |->
               IF ai = "failed" THEN PyStr(<<"timeout">>) ELSE PyNone,
             api_endpoint |-> log_entry.api_endpoint,
             timestamp |-> log_entry.timestamp,
             source_type |-> log_entry.source_type,
             raw_log_id |-> log_entry.id,
             confidence_score |-> "0.9" ] ]

\* the loop over session_logs.items() and over the logs of each type
RECURSIVE CollectApiLogs(_)
CollectApiLogs(session_logs) ==
  IF session_logs = <<>> THEN <<>>
  ELSE
    LET log_type == Head(session_logs)[1]
        logs == Head(session_logs)[2]
        found == SelectSeq(logs, IsApiRelatedLog)
    IN [i \in 1..Len(found) |-> [found[i] EXCEPT !.source_type = log_type]]
       \o CollectApiLogs(Tail(session_logs))

SortByTimestampKeepsOrder(logs) == logs

\* list.sort(key=timestamp): a stable sort
RECURSIVE SortByTimestamp(_)
SortByTimestamp(logs) ==
  IF logs = <<>> THEN <<>>
  ELSE
    LET sorted == SortByTimestamp(SubSeq(logs, 1, Len(logs) - 1))
        last == logs[Len(logs)]
        before == SelectSeq(sorted, LAMBDA e : e.timestamp <= last.timestamp)
        after == SelectSeq(sorted, LAMBDA e : e.timestamp > last.timestamp)
    IN before \o <<last>> \o after

NoCalls ==
  [ raised |-> FALSE, api_call_analysis |-> <<>>, failed_calls |-> <<>>,
    total_calls |-> 0, successful_calls |-> 0 ]

RECURSIVE AnalyzeCallsFailuresUnlisted(_, _)
AnalyzeCallsFailuresUnlisted(all_api_logs, done) ==
  IF all_api_logs = <<>> THEN done
  ELSE
    LET log_entry == Head(all_api_logs)
        analysis == [ is_successful |-> log_entry.ai = "successful",
                      error_details |-> PyStr(<<"timeout">>),
                      api_endpoint |-> log_entry.api_endpoint,
                      timestamp |-> log_entry.timestamp,
                      source_type |-> log_entry.source_type,
                      raw_log_id |-> log_entry.id,
                      confidence_score |-> "0.9" ]
    IN AnalyzeCallsFailuresUnlisted(
         Tail(all_api_logs),
         [done EXCEPT
            !.api_call_analysis = Append(@, analysis),
            !.total_calls = @ + 1,
            !.successful_calls = IF analysis.is_successful THEN @ + 1 ELSE @])

\* the loop over all_api_logs
RECURSIVE AnalyzeCalls(_, _)
AnalyzeCalls(all_api_logs, done) ==
  IF all_api_logs = <<>> \/ done.raised THEN done
  ELSE
    LET log_entry == Head(all_api_logs)
        ai_analysis == AnalyzeApiCallWithAi(log_entry, log_entry.ai)
        fallback_analysis == CreateFallbackAnalysis(log_entry)
    IN AnalyzeCalls(
         Tail(all_api_logs),
         IF ai_analysis.raised
         THEN IF fallback_analysis.raised
              THEN [done EXCEPT !.raised = TRUE]
              ELSE [done EXCEPT
                      !.api_call_analysis =
                        Append(@, fallback_analysis.analysis),
                      !.total_calls = @ + 1]
         ELSE IF ai_analysis.analysis.is_successful
         THEN [done EXCEPT
                 !.api_call_analysis = Append(@, ai_analysis.analysis),
                 !.total_calls = @ + 1,
                 !.successful_calls = @ + 1]
         ELSE [done EXCEPT
                 !.api_call_analysis = Append(@, ai_analysis.analysis),
                 !.total_calls = @ + 1,
                 !.failed_calls = Append(@, ai_analysis.analysis)])

\* what the chat completion makes of the summary of the session: a JSON
\* object with or without a session_score, JSON that is no object, or an
\* exception
InsightOutcomes ==
  { [kind |-> "object", scored |-> TRUE, session_score |-> 80],
    [kind |-> "object", scored |-> TRUE, session_score |-> 15],
    [kind |-> "object", scored |-> FALSE, session_score |-> 0],
    [kind |-> "list", scored |-> FALSE, session_score |-> 0],
    [kind |-> "raises", scored |-> FALSE, session_score |-> 0] }

\* _generate_ai_insights_summary
GenerateAiInsightsSummary(api_analyses, insight) ==
  IF insight.kind = "raises"
  THEN [kind |-> "object", scored |-> TRUE, session_score |-> 65]
  ELSE insight

\* _categorize_error_types raises on a failed call whose error_details is
\* null
CategorizeRaises(failed_calls) ==
  \E i \in DOMAIN failed_calls : failed_calls[i].error_details.kind # "str"

\* a quotient of two naturals, as the float it is
Ratio(num, den) == [num |-> num, den |-> den]

\* _analyze_fraud_monitoring_calls_fixed
AnalyzeFraudMonitoringCalls(session_logs, fraud_type, mock_ai, insight) ==
  LET found == CollectApiLogs(session_logs)
      all_api_logs ==
        SortByTimestamp(IF found = <<>>
                        THEN CreateMockApiLogs(fraud_type, mock_ai)
                        ELSE found)
      done == AnalyzeCalls(all_api_logs, NoCalls)
      success_rate == IF done.total_calls > 0
                      THEN Ratio(done.successful_calls, done.total_calls)
                      ELSE Ratio(0, 1)
  IN IF done.raised \/ CategorizeRaises(done.failed_calls)
     THEN [raised |-> TRUE]
     ELSE [ raised |-> FALSE,
            api_call_analysis |-> done.api_call_analysis,
            success_rate |-> success_rate,
            failed_calls |-> done.failed_calls,
            ai_insights |->
              GenerateAiInsightsSummary(done.api_call_analysis, insight),
            summary_statistics |->
              [ total_api_calls |-> done.total_calls,
                successful_calls |-> done.successful_calls,
                failed_calls |-> Len(done.failed_calls),
                success_rate |-> success_rate ] ]

\* the log entries of the sessions, each with what the chat completion
\* makes of it: two API-related entries (by endpoint, by the words of the
\* message), one whose level is null, and one unrelated entry
SessionEntries ==
  { [LogEntry(<<"a">>, 2, PyStr(<<"INFO">>), <<"ok">>, PyStr(<<"/pay">>), <<"ui">>)
       EXCEPT !.ai = o] : o \in AiOutcomes }
  \cup { [LogEntry(<<"b">>, 1, PyStr(<<"ERROR">>), <<"fraud", "check">>, PyNone, <<"ui">>)
            EXCEPT !.ai = o] : o \in AiOutcomes \ {"failed"} }
  \cup { [LogEntry(<<"c">>, 1, PyNone, <<"ok">>, PyStr(<<"/x">>), <<"ui">>)
            EXCEPT !.ai = o] : o \in {"successful", "not json"} }
  \cup { LogEntry(<<"d">>, 3, PyStr(<<"INFO">>), <<"hello">>, PyNone, <<"ui">>) }

\* session_logs: the entries found per log type, MaxLogs at most
SessionLogs ==
  { << <<"fraud_detection", l1>>, <<"payment_gateway", l2>> >> :
      l1 \in UNION { [1..n -> SessionEntries] : n \in 0..MaxLogs },
      l2 \in UNION { [1..n -> SessionEntries] : n \in 0..1 } }

TotalLogs(session_logs) == Len(session_logs[1][2]) + Len(session_logs[2][2])

FraudTypes == {"digital_fraud", "unknown_fraud"}

InitMonitoring ==
  /\ Booted
  /\ unit \in { [ op |-> "_analyze_fraud_monitoring_calls_fixed",
                  session_logs |-> s, fraud_type |-> f, mock_ai |-> m,
                  returned |-> FALSE, result |-> [raised |-> FALSE] ] :
                s \in {x \in SessionLogs : TotalLogs(x) <= MaxLogs},
                f \in FraudTypes, m \in {"successful", "failed", "not json"} }

\* the call is made
AnalyzeFraudMonitoringCallsCall ==
  /\ unit.op = "_analyze_fraud_monitoring_calls_fixed"
  /\ ~unit.returned
  /\ unit' = [unit EXCEPT
                !.returned = TRUE,
                !.result = AnalyzeFraudMonitoringCalls(
                             unit.session_logs, unit.fraud_type, unit.mock_ai,
                             [kind |-> "raises", scored |-> FALSE,
                              session_score |-> 0])]
  /\ UNCHANGED << validator_vars, app_vars, download_vars >>

SpecMonitoring == InitMonitoring /\ [][AnalyzeFraudMonitoringCallsCall]_vars

\* ------------------------------------------------------------------------
\* services/fraud_analysis_service.py: the analysis with JWT validation
\* ------------------------------------------------------------------------

\* _generate_fraud_analysis: the report, a dict; the parts that do not
\* bear on the scores are named only
GenerateFraudAnalysis(session_id, fraud_type, monitoring_analysis) ==
  << <<"session_id", session_id>>,
     <<"fraud_type", fraud_type>>,
     <<"order_classification", "order_classification">>,
     <<"customer_type", "customer_type">>,
     <<"monitoring_analysis", monitoring_analysis>>,
     <<"risk_assessment", "risk_level">>,
     <<"recommendations", "recommendations">>,
     <<"statistics",
       [ fraud_calls_triggered |-> Len(monitoring_analysis.api_call_analysis),
         fraud_call_success_rate |-> monitoring_analysis.success_rate ]>>,
     <<"timeline", "timeline">> >>

\* jwt_validation_results: with or without a validation_summary, which
\* carries an overall_score
JwtValidationResults ==
  { [has_summary |-> FALSE, overall_score |-> 0] }
    \cup { [has_summary |-> TRUE, overall_score |-> s] : s \in {0, 40, 100} }

\* int((original_score * 0.7) + (jwt_score * 0.3)), for scores that are
\* whole numbers; the rounding of the binary products is left out
CombinedScore(original_score, jwt_score) ==
  (7 * original_score + 3 * jwt_score) \div 10

\* risk_contribution
RiskContribution(jwt_score) ==
  IF jwt_score < 70 THEN "HIGH" ELSE IF jwt_score < 90 THEN "MEDIUM" ELSE "LOW"

\* _generate_enhanced_fraud_analysis: the report, or the exception of
\* .get on insights that are no object
GenerateEnhancedFraudAnalysis(session_id, fraud_type, monitoring_analysis, jwt_validation_results) ==
  LET base_analysis ==
        GenerateFraudAnalysis(session_id, fraud_type, monitoring_analysis)
      has_insights == HasKey(base_analysis, "ai_insights")
      insights == Get(base_analysis, "ai_insights")
      original_score ==
        IF has_insights /\ insights.scored THEN insights.session_score ELSE 50
      jwt_score == IF jwt_validation_results.has_summary
                   THEN jwt_validation_results.overall_score ELSE 100
      combined_score == CombinedScore(original_score, jwt_score)
      jwt_section == << <<"jwt_identity_validation",
                          [ validation_performed |-> TRUE,
                            risk_contribution |-> RiskContribution(jwt_score) ]>> >>
  IN IF has_insights /\ insights.kind # "object"
     THEN [raised |-> TRUE, analysis |-> <<>>]
     ELSE IF has_insights
     THEN [ raised |-> FALSE,
            analysis |->
              Put(base_analysis, "ai_insights",
                  [ kind |-> "object", scored |-> TRUE,
                    session_score |-> combined_score,
                    jwt_validation_score |-> jwt_score ])
                \o jwt_section ]
     ELSE [raised |-> FALSE, analysis |-> base_analysis \o jwt_section]

\* a session is about to be analyzed: its logs, what the chat completion
\* answers, and the results of the JWT validation
InitEnhanced ==
  /\ Booted
  /\ unit \in { [ op |-> "_generate_enhanced_fraud_analysis",
                  session_logs |-> s, insight |-> i, jwt |-> j,
                  returned |-> FALSE, monitoring |-> [raised |-> TRUE],
                  enhanced |-> [raised |-> TRUE, analysis |-> <<>>] ] :
                s \in {x \in SessionLogs : TotalLogs(x) <= 1},
                i \in InsightOutcomes, j \in JwtValidationResults }

\* steps 5 and 6 of analyze_fraud_session
EnhancedFraudAnalysisCall ==
  /\ unit.op = "_generate_enhanced_fraud_analysis"
  /\ ~unit.returned
  /\ LET monitoring ==
           AnalyzeFraudMonitoringCalls(unit.session_logs, "digital_fraud",
                                       "successful", unit.insight)
     IN unit' = [unit EXCEPT
                   !.returned = TRUE,
                   !.monitoring = monitoring,
                   !.enhanced =
                     IF monitoring.raised
                     THEN [raised |-> TRUE, analysis |-> <<>>]
                     ELSE GenerateEnhancedFraudAnalysis(
                            <<"s1">>, "digital_fraud", monitoring, unit.jwt)]
  /\ UNCHANGED << validator_vars, app_vars, download_vars >>

SpecEnhanced == InitEnhanced /\ [][EnhancedFraudAnalysisCall]_vars

\* ------------------------------------------------------------------------
\* Properties of the request handlers
\* ------------------------------------------------------------------------

\* t is s without its leading and trailing whitespace
IsTrimOf(t, s) ==
  \E a \in 1..(Len(s) + 1), b \in 0..Len(s) :
    /\ t = SubSeq(s, a, b)
    /\ \A i \in 1..Len(s) : (i < a \/ i > b) => s[i] \in Whitespace
    /\ t # <<>> => (t[1] \notin Whitespace /\ t[Len(t)] \notin Whitespace)

\* u is t with every character upper-cased
IsUpperOf(u, t) ==
  /\ Len(u) = Len(t)
  /\ \A i \in 1..Len(t) : u[i] = UpperChar(t[i])

\* the last request was a validate-order request that reached the validator
ReachedValidator == request.endpoint = "/api/validate-order" /\ Validated

\* C8: the validator, and the query it runs, receive the request's
\* location_code trimmed and upper-cased and its order_number trimmed; the
\* validator passes both on to the query and the result as it got them.
C8_LocationCodeNormalizedAtBoundary ==
  ReachedValidator =>
    LET sent_order == Str(Get(request.body.data, "order_number"))
        sent_location == Str(Get(request.body.data, "location_code"))
    IN /\ IsTrimOf(call.order_number, sent_order)
       /\ \E t \in {SubSeq(sent_location, a, b) :
                      a \in 1..(Len(sent_location) + 1), b \in 0..Len(sent_location)} :
            IsTrimOf(t, sent_location) /\ IsUpperOf(call.location_code, t)
       /\ downstream[1].args = <<call.order_number, call.location_code>>
       /\ \A i \in 1..Len(sql_log) :
            /\ Get(sql_log[i].params, "order_number") = call.order_number
            /\ Get(sql_log[i].params, "location_code") = call.location_code
       /\ Returned
       /\ outcome.value.order_number = call.order_number
       /\ outcome.value.location_code = call.location_code

C8_Witness ==
  /\ ReachedValidator
  /\ Get(request.body.data, "location_code") = PyStr(<<" ", "n", "y", "\t">>)
  /\ Get(request.body.data, "order_number") = PyStr(<<" ", "7", " ">>)
  /\ call.location_code = <<"N", "Y">>
  /\ call.order_number = <<"7">>
  /\ Len(sql_log) = 1
  /\ response.status = 200

\* the endpoints backed by a service handle, and the handle of each
ServiceEndpoints ==
  { "/api/validate-order", "/api/query", "/api/security-analysis",
    "/api/search-logs", "/api/jenkins-trigger-job" }

HandleOf(endpoint) ==
  CASE endpoint = "/api/validate-order" -> handles.order_validator
    [] endpoint = "/api/query" -> handles.jira_service
    [] endpoint = "/api/security-analysis" -> handles.security_service
    [] endpoint = "/api/search-logs" -> handles.elasticsearch_service
    [] endpoint = "/api/jenkins-trigger-job" -> handles.jenkins_service

\* the last request went to a service endpoint whose handle is None
ToMissingService ==
  request.endpoint \in ServiceEndpoints /\ HandleOf(request.endpoint) = "None"

\* C10: a request to a service endpoint whose handle is None is answered
\* with 503 and {success: false, error}, whatever its body, and no service
\* and no database is called.
C10_MissingServiceIs503 ==
  ToMissingService =>
    /\ response.status = 503
    /\ DOMAIN response.body = {"success", "error"}
    /\ ~response.body.success
    /\ response.body.error # <<>>
    /\ downstream = <<>>
    /\ call = NoCall
    /\ select_calls = 0
    /\ sql_log = <<>>

C10_Witness ==
  /\ ToMissingService
  /\ request.endpoint = "/api/validate-order"
  /\ request.body.json = "object"
  /\ Truthy(Get(request.body.data, "order_number"))
  /\ Truthy(Get(request.body.data, "location_code"))
  /\ response.status = 503
  /\ handles.jira_service = "ready"

\* the fields each endpoint requires, and the handle behind each endpoint
RequiredFields(endpoint) ==
  CASE endpoint = "/api/validate-order" -> {"order_number", "location_code"}
    [] endpoint = "/api/query" -> {"query"}
    [] endpoint = "/api/security-analysis" -> {"issue_key"}
    [] endpoint = "/api/search-logs" -> {"log_type", "session_id"}
    [] endpoint = "/api/jenkins-trigger-job" -> {"job_type"}
    [] endpoint = "/api/process-security-command" -> {"command"}
    [] OTHER -> {}

EndpointHandle(endpoint) ==
  IF endpoint = "/api/process-security-command"
  THEN handles.jira_service
  ELSE HandleOf(endpoint)

\* the parsed body of the last request lacks the field, or carries it as
\* null or as the empty string
LacksField(field) ==
  /\ request.body.json # "malformed"
  /\ \/ NoData(request.body)
     \/ ~HasKey(request.body.data, field)
     \/ Get(request.body.data, field) \in {PyNone, PyStr(<<>>)}

\* the last request went to an initialized endpoint without one of its
\* required fields
RequiredFieldMissing ==
  /\ request.endpoint # "none"
  /\ EndpointHandle(request.endpoint) = "ready"
  /\ \E field \in RequiredFields(request.endpoint) : LacksField(field)

\* C11: a request to an initialized endpoint that lacks a required field, or
\* carries it empty, is answered with 400 and success false, and no service,
\* validator or database call is made for it.
C11_ValidationPrecedesCalls ==
  RequiredFieldMissing =>
    /\ response.status = 400
    /\ ~response.body.success
    /\ downstream = <<>>
    /\ call = NoCall
    /\ select_calls = 0
    /\ sql_log = <<>>

C11_Witness ==
  /\ RequiredFieldMissing
  /\ request.endpoint = "/api/process-security-command"
  /\ request.body.json = "object"
  /\ Get(request.body.data, "command") = PyStr(<<>>)
  /\ response.status = 400
  /\ issued = 1

\* the HTTP requests sent to Elasticsearch and Jenkins for the last request
RECURSIVE PostsOf(_)
PostsOf(calls) ==
  IF calls = <<>> THEN <<>>
  ELSE (IF "posts" \in DOMAIN Head(calls) THEN Head(calls).posts ELSE <<>>)
       \o PostsOf(Tail(calls))

\* the answer to an HTTP request is a failure
PostFailed(post) ==
  post.answer.status \notin 200..399
    \/ ("body" \in DOMAIN post.answer /\ post.answer.body = "not json")

\* the external operation of the last request was attempted and failed
ExternalOperationFailed ==
  \/ call.op = "validate_order" /\ db_reply.fail # "none"
  \/ \E i \in DOMAIN PostsOf(downstream) : PostFailed(PostsOf(downstream)[i])

\* C12: for one request the SELECT, the _search POST and the
\* buildWithParameters POST are each attempted at most once, and when the
\* attempt fails the request ends with an error result after that single
\* attempt and a single service call.
C12_NothingIsRetried ==
  /\ select_calls <= 1
  /\ Len(sql_log) <= 1
  /\ Len(PostsOf(downstream)) <= 1
  /\ ExternalOperationFailed =>
       /\ ~response.body.success
       /\ Len(SelectSeq(downstream,
                        LAMBDA c : c.method # "validate_parameters")) = 1
       /\ select_calls + Len(PostsOf(downstream)) = 1

C12_Witness ==
  /\ request.endpoint = "/api/search-logs"
  /\ Len(PostsOf(downstream)) = 1
  /\ PostsOf(downstream)[1].answer.status = 500
  /\ ~response.body.success

\* ------------------------------------------------------------------------
\* Properties of the download dictionary
\* ------------------------------------------------------------------------

\* this step is a /api/process-security-command request that succeeds
CommandSucceeds == issued' = issued + 1

\* after the step the dictionary holds the entry of the new report
NewEntryStored ==
  /\ HasKey(download_files', issued')
  /\ Get(download_files', issued').created = now

\* every entry at most one hour old before the step is unchanged after it
RecentEntriesKept ==
  \A i \in DOMAIN download_files :
    now - download_files[i][2].created <= Hour =>
      \E j \in DOMAIN download_files' : download_files'[j] = download_files[i]

AskedId == request'.body
AskedPath == Get(download_files, AskedId).path

\* this step answers a download request with the file
FileReturned == DownloadSecurityReport /\ response'.status = 200

\* an id that has left the dictionary never returns to it
RemovedIdsStayRemoved ==
  \A file_id \in 1..issued :
    ~HasKey(download_files, file_id) => ~HasKey(download_files', file_id)

\* a download request for an id that is not in the dictionary, or whose file
\* is gone, is answered 404, and the entry of a file that is gone is removed
MissingIs404 ==
  DownloadSecurityReport =>
    /\ ~HasKey(download_files, AskedId) =>
         response'.status = 404 /\ download_files' = download_files
    /\ HasKey(download_files, AskedId) /\ AskedPath \notin files =>
         response'.status = 404 /\ download_files' = Del(download_files, AskedId)

LostRace(t) ==
  /\ threads[t].pc = "done"
  /\ threads[t].raised \in {"KeyError", "FileNotFoundError"}

SameFileTwice ==
  /\ \A t \in Threads : threads[t].pc = "done" /\ threads[t].status = 200
  /\ threads[1].file_id = threads[2].file_id

\* ------------------------------------------------------------------------
\* Properties of Config.validate
\* ------------------------------------------------------------------------

\* validate has run
ConfigValidated == unit.op = "Config" /\ unit.returned

\* the attribute of Config holds a value that is not empty
IsSet(name) == unit.config[name] \notin {PyNone, PyStr(<<>>)}

\* C15: Config.validate returns True exactly when JIRA_URL, JIRA_USERNAME,
\* JIRA_TOKEN, OPENAI_API_KEY, ORACLE_USER, ORACLE_PASSWORD and ORACLE_HOST
\* are all set and ORACLE_SERVICE or ORACLE_SID is set; the Elasticsearch
\* and Jenkins variables have no part in the result.
C15_ValidateResult ==
  ConfigValidated =>
    ( unit.validated.result = TRUE <=>
        /\ \A name \in { "JIRA_URL", "JIRA_USERNAME", "JIRA_TOKEN",
                         "OPENAI_API_KEY", "ORACLE_USER", "ORACLE_PASSWORD",
                         "ORACLE_HOST" } : IsSet(name)
        /\ IsSet("ORACLE_SERVICE") \/ IsSet("ORACLE_SID") )

C15_Witness ==
  /\ ConfigValidated
  /\ unit.validated.result = TRUE
  /\ \A name \in Range(RequiredElasticsearch) \cup Range(RequiredJenkins) :
       unit.environ[name] = Unset
  /\ unit.environ["ORACLE_SID"] = Unset
  /\ unit.validated.warnings # <<>>

\* ------------------------------------------------------------------------
\* Properties of trigger_job
\* ------------------------------------------------------------------------

\* trigger_job has returned from a call with a known job type and a
\* non-blank value for every parameter the job is configured with
Triggerable ==
  /\ unit.op = "trigger_job"
  /\ unit.returned
  /\ HasKey(JobConfigs, unit.job_type)
  /\ \A i \in DOMAIN Get(JobConfigs, unit.job_type).parameters :
       LET name == Get(JobConfigs, unit.job_type).parameters[i]
       IN /\ HasKey(unit.parameters, name)
          /\ \E k \in DOMAIN Get(unit.parameters, name) :
               Get(unit.parameters, name)[k] \notin Whitespace

\* C16: such a call sends exactly one form-encoded POST to
\* /job/<job_name>/buildWithParameters whose body holds the configured
\* parameters with the caller's values, triggered_at and triggered_by, and
\* nothing else; when Jenkins answers with success the result has success
\* true, status 'triggered' and the Location header as queue_location.
C16_OnePostWithConfiguredParameters ==
  Triggerable =>
    LET job_config == Get(JobConfigs, unit.job_type)
    IN /\ Len(unit.posts) = 1
       /\ unit.posts[1].method = "POST"
       /\ unit.posts[1].content_type = "application/x-www-form-urlencoded"
       /\ unit.posts[1].path =
            <<"/job/", job_config.job_name, "/buildWithParameters">>
       /\ Keys(unit.posts[1].data) =
            job_config.parameters \o <<"triggered_at", "triggered_by">>
       /\ \A i \in DOMAIN job_config.parameters :
            Get(unit.posts[1].data, job_config.parameters[i]) =
              Get(unit.parameters, job_config.parameters[i])
       /\ unit.reply.status \in 200..399 =>
            /\ unit.result.success
            /\ unit.result.status = "triggered"
            /\ unit.result.queue_location = unit.reply.location

C16_Witness ==
  /\ Triggerable
  /\ HasKey(unit.parameters, "branch")
  /\ unit.reply.status = 201
  /\ unit.result.success
  /\ ~HasKey(unit.posts[1].data, "branch")

\* ------------------------------------------------------------------------
\* Properties of _build_search_query
\* ------------------------------------------------------------------------

\* _build_search_query has returned a query
QueryBuilt ==
  unit.op = "_build_search_query" /\ unit.returned /\ ~unit.built.raised

\* the range clauses on @timestamp among the filters of the query built
TimestampRanges ==
  SelectSeq(unit.built.query.filter,
            LAMBDA c : c.clause = "range" /\ c.field = "@timestamp")

\* the query built has exactly one must clause, matching the session field
\* of the log type to the session id
OneSessionMatch ==
  unit.built.query.must =
    << [ clause |-> "match",
         field |-> Get(LogConfigs, unit.log_type).session_field,
         value |-> unit.session_id ] >>

\* the time_range the call was given, '24h' when it was given none
GivenTimeRange == GetOr(unit.filters, "time_range", PyStr(<<"24h">>))

\* C17 as stated: every query built for a known log type holds a range
\* filter on @timestamp, whatever the time_range, and exactly one must
\* clause matching the session field to the session id.
C17_Original ==
  QueryBuilt => Len(TimestampRanges) >= 1 /\ OneSessionMatch

\* C17: every query built for a known log type holds exactly one must
\* clause matching the session field to the session id, and one range filter
\* on @timestamp from now-<time_range> to now when time_range is one of 1h,
\* 6h, 24h, 7d, 30d (24h when the caller gave none); for any other
\* time_range, the empty one included, it holds no range filter.
C17_RangeOnlyForKnownTimeRange ==
  QueryBuilt =>
    /\ OneSessionMatch
    /\ IF GivenTimeRange \in {PyStr(<<t>>) : t \in {"1h", "6h", "24h", "7d", "30d"}}
       THEN /\ Len(TimestampRanges) = 1
            /\ TimestampRanges[1].lte = "now"
            /\ TimestampRanges[1].gte = TimeMap(GivenTimeRange.text[1])
       ELSE TimestampRanges = <<>>

C17_Witness ==
  /\ QueryBuilt
  /\ GivenTimeRange = PyStr(<<"90d">>)
  /\ unit.built.query.filter # <<>>
  /\ TimestampRanges = <<>>

\* ------------------------------------------------------------------------
\* Properties of the identity analysis
\* ------------------------------------------------------------------------

IdentityAnalysed ==
  /\ unit.op = "_analyze_identity_consistency"
  /\ unit.returned

\* the payload fields that stand for one identity field
PossibleFields(identity_type) == Get(IdentityFields, identity_type)

\* the token decoded and its payload has one of the fields
Carries(token_info, identity_type) ==
  /\ token_info.token.decodes
  /\ \E i \in DOMAIN PossibleFields(identity_type) :
       HasKey(token_info.token.payload, PossibleFields(identity_type)[i])

\* the value the token carries: that of the first field it has
CarriedValue(token_info, identity_type) ==
  LET fields == PossibleFields(identity_type)
      first == CHOOSE i \in DOMAIN fields :
                 /\ HasKey(token_info.token.payload, fields[i])
                 /\ \A j \in 1..(i - 1) :
                      ~HasKey(token_info.token.payload, fields[j])
  IN Get(token_info.token.payload, fields[first])

Carriers(jwt_tokens, identity_type) ==
  { i \in DOMAIN jwt_tokens : Carries(jwt_tokens[i], identity_type) }

DistinctValues(jwt_tokens, identity_type) ==
  { CarriedValue(jwt_tokens[i], identity_type) :
      i \in Carriers(jwt_tokens, identity_type) }

ChecksFor(identity_type) ==
  { i \in DOMAIN unit.checks : unit.checks[i].identity_field = identity_type }

ReplyWasNotJson ==
  /\ unit.op = "analyze_issue_security_impact"
  /\ unit.returned
  /\ unit.issue = "issue"
  /\ ~unit.llm.raises
  /\ unit.llm.content.kind = "str"
  /\ ~unit.llm.valid

\* C19: when the reply of the LLM is not valid JSON,
\* _get_llm_security_analysis falls back to the raw reply text as the
\* analysis with risk_level 'Medium', and analyze_issue_security_impact
\* returns success true with that text; no exception reaches the caller.
C19_RawTextFallback ==
  ReplyWasNotJson =>
    /\ unit.llm_analysis.kind = "dict"
    /\ Get(unit.llm_analysis.items, "analysis")
         = PyStr(Strip(unit.llm.content.text))
    /\ Get(unit.llm_analysis.items, "risk_level") = PyStr(<<"Medium">>)
    /\ unit.result.success
    /\ unit.result.analysis = PyStr(Strip(unit.llm.content.text))

\* ------------------------------------------------------------------------
\* Properties of the Jenkins trigger
\* ------------------------------------------------------------------------

\* the last request asked an initialized Jenkins service to trigger a job
\* and named a job_type
JobTypePresent ==
  /\ request.endpoint = "/api/jenkins-trigger-job"
  /\ handles.jenkins_service = "ready"
  /\ request.body.json = "object"
  /\ ~NoData(request.body)
  /\ Truthy(Get(request.body.data, "job_type"))

\* what validate_parameters reports for the last request
RequestValidation ==
  ValidateParameters(Strip(Str(Get(request.body.data, "job_type"))),
                     GetOr(request.body.data, "parameters", <<>>))

\* the service methods called for the last request, in order
MethodsCalled == [i \in DOMAIN downstream |-> downstream[i].method]

\* C21: for a /api/jenkins-trigger-job request with a job_type,
\* validate_parameters runs before trigger_job, and when it reports
\* success false (a missing or blank required parameter, an email_id
\* without '@', or an unknown job_type) the response is 400 'Parameter
\* validation failed', trigger_job is not called and no build request
\* reaches Jenkins.
C21_FailedValidationIs400 ==
  JobTypePresent =>
    /\ Len(MethodsCalled) >= 1
    /\ MethodsCalled[1] = "validate_parameters"
    /\ ~RequestValidation.success =>
         /\ response.status = 400
         /\ response.body.error = <<"Parameter validation failed">>
         /\ MethodsCalled = <<"validate_parameters">>
         /\ PostsOf(downstream) = <<>>

\* a method of JenkinsService returned for a job type job_configs lacks
UnknownJobTypeCalled ==
  /\ unit.op = "JenkinsService"
  /\ unit.returned
  /\ ~HasKey(JobConfigs, unit.job_type)

\* C22: for a job_type that is not a key of job_configs, get_job_info,
\* trigger_job, get_build_status and validate_parameters each return
\* success false with error 'Unknown job type: <job_type>' and send no HTTP
\* request to Jenkins.
C22_UnknownJobTypeSendsNothing ==
  UnknownJobTypeCalled =>
    /\ ~unit.result.success
    /\ unit.result.error = <<"Unknown job type: ">> \o unit.job_type
    /\ unit.requests = <<>>
    /\ ~unit.triggered

C22_Witness ==
  /\ UnknownJobTypeCalled
  /\ unit.method = "get_build_status"
  /\ unit.get_reply.status = 200
  /\ unit.result.error = <<"Unknown job type: ", "nightly_build">>

\* validate_parameters returned for a job type of job_configs
KnownJobTypeValidated ==
  /\ unit.op = "JenkinsService"
  /\ unit.method = "validate_parameters"
  /\ unit.returned
  /\ HasKey(JobConfigs, unit.job_type)

MissingReported(result) ==
  /\ ~result.success
  /\ "error" \in DOMAIN result
  /\ result.error # <<>>
  /\ Head(result.error) = "Missing required parameters: "

\* C23: for every known job type and every parameter map of strings,
\* validate_parameters returns success true iff its errors list is empty,
\* and trigger_job called with the validated_parameters of a successful
\* validation never returns 'Missing required parameters'.
C23_ValidationLayersAgree ==
  KnownJobTypeValidated =>
    /\ unit.result.success <=> (unit.result.errors = <<>>)
    /\ unit.triggered => ~MissingReported(unit.trigger_result)

C23_Witness ==
  /\ KnownJobTypeValidated
  /\ unit.triggered
  /\ unit.trigger_result.success
  /\ unit.result.validated_parameters # unit.parameters
  /\ unit.result.warnings # <<>>

\* ------------------------------------------------------------------------
\* Properties of create_app
\* ------------------------------------------------------------------------

AppCreated ==
  /\ unit.op = "create_app"
  /\ unit.returned

\* Config.validate() returned True, and JiraService and SecurityService
\* were constructed without error
ValidatorPrerequisites ==
  /\ unit.config_valid
  /\ unit.failure \notin {"Config", "import", "JiraService", "SecurityService"}

\* C24: after create_app, order_validator is initialized (and
\* /api/validate-order does not answer 503) only if Config.validate()
\* returned True and JiraService and SecurityService were constructed
\* without error; a failure constructing ElasticsearchService leaves
\* jira_service, security_service and order_validator initialized and only
\* elasticsearch_service None.
C24_ValidatorNeedsConfigAndServices ==
  AppCreated =>
    /\ handles.order_validator = "ready" => ValidatorPrerequisites
    /\ (request.endpoint = "/api/validate-order" /\ response.status # 503)
         => /\ handles.order_validator = "ready"
            /\ ValidatorPrerequisites
    /\ (unit.config_valid /\ unit.failure = "ElasticsearchService")
         => /\ handles.jira_service = "ready"
            /\ handles.security_service = "ready"
            /\ handles.order_validator = "ready"
            /\ handles.elasticsearch_service = "None"

C24_Witness ==
  /\ AppCreated
  /\ unit.config_valid
  /\ unit.failure = "ElasticsearchService"
  /\ handles.elasticsearch_service = "None"
  /\ request.endpoint = "/api/validate-order"
  /\ response.status = 200

\* ------------------------------------------------------------------------
\* Properties of the log search
\* ------------------------------------------------------------------------

\* the custom filter of a log type that a filter of the request stands for
CustomFilterOf(filter_name) ==
  CASE filter_name = "transaction_id" -> "transactionId"
    [] filter_name = "merchant_id" -> "merchantId"
    [] filter_name = "xml_version" -> "xmlVersion"
    [] filter_name = "validation_status" -> "validationStatus"
    [] filter_name = "user_id" -> "userId"
    [] filter_name = "auth_method" -> "authMethod"
    [] filter_name = "payment_id" -> "paymentId"
    [] filter_name = "gateway" -> "gateway"
    [] filter_name = "risk_score" -> "riskScore"
    [] filter_name = "decision" -> "decision"
    [] filter_name = "api_endpoint" -> "apiEndpoint"
    [] filter_name = "http_method" -> "httpMethod"

\* the last request was a log search that reached the service
LogsSearched ==
  /\ request.endpoint = "/api/search-logs"
  /\ response.status = 200
  /\ Len(downstream) = 1

\* the request gives the filter a non-empty value, for a log type that
\* defines the corresponding custom filter
FilterApplies(f) ==
  /\ HasKey(request.body.data, LogSpecificFilters[f])
  /\ Strip(Str(Get(request.body.data, LogSpecificFilters[f]))) # <<>>
  /\ HasKey(LogConfigs, downstream[1].args[1])
  /\ \E i \in DOMAIN Get(LogConfigs, downstream[1].args[1]).custom_filters :
       Get(LogConfigs, downstream[1].args[1]).custom_filters[i]
         = CustomFilterOf(LogSpecificFilters[f])

\* the query sent to Elasticsearch has a term filter for the filter
HasTermFilter(f) ==
  /\ Len(downstream[1].posts) = 1
  /\ \E i \in DOMAIN downstream[1].posts[1].data.filter :
       LET clause == downstream[1].posts[1].data.filter[i]
       IN /\ clause.clause = "term"
          /\ clause.field \in { LogSpecificFilters[f],
                                CustomFilterOf(LogSpecificFilters[f]) }
          /\ clause.value
               = PyStr(Strip(Str(Get(request.body.data, LogSpecificFilters[f]))))

\* C25: every log-type-specific filter /api/search-logs accepts, when given
\* a non-empty value for a log type that defines the corresponding custom
\* filter, appears as a term filter in the Elasticsearch query built for the
\* request.
C25_SpecificFiltersReachTheQuery ==
  LogsSearched =>
    \A f \in DOMAIN LogSpecificFilters : FilterApplies(f) => HasTermFilter(f)

\* ------------------------------------------------------------------------
\* Properties of the fraud monitoring analysis
\* ------------------------------------------------------------------------

\* _analyze_fraud_monitoring_calls_fixed returned a result
MonitoringResult ==
  /\ unit.op = "_analyze_fraud_monitoring_calls_fixed"
  /\ unit.returned
  /\ ~unit.result.raised

\* C26: in every result of _analyze_fraud_monitoring_calls_fixed,
\* total_api_calls is the length of api_call_analysis, failed_calls the
\* length of the failed_calls list, successful_calls + failed_calls is
\* total_api_calls, and success_rate is successful_calls / total_api_calls
\* (0.0 when there are no calls), so it lies between 0 and 1.
C26_StatisticsMatchLists ==
  MonitoringResult =>
    LET stats == unit.result.summary_statistics
    IN /\ stats.total_api_calls = Len(unit.result.api_call_analysis)
       /\ stats.failed_calls = Len(unit.result.failed_calls)
       /\ stats.successful_calls + stats.failed_calls = stats.total_api_calls
       /\ IF stats.total_api_calls = 0
          THEN stats.success_rate.num = 0
          ELSE stats.success_rate.num * stats.total_api_calls
                 = stats.successful_calls * stats.success_rate.den
       /\ stats.success_rate.den > 0
       /\ 0 <= stats.success_rate.num
       /\ stats.success_rate.num <= stats.success_rate.den
       /\ unit.result.success_rate = stats.success_rate

C26_Witness ==
  /\ MonitoringResult
  /\ unit.result.summary_statistics.total_api_calls = 2
  /\ unit.result.summary_statistics.successful_calls = 1
  /\ unit.result.summary_statistics.failed_calls = 1
  /\ \E i \in DOMAIN unit.result.api_call_analysis :
       unit.result.api_call_analysis[i].confidence_score = "0.3"

\* the entries gathered for the session, in the order of session_logs, each
\* with the log type it came from
RECURSIVE Gathered(_)
Gathered(session_logs) ==
  IF session_logs = <<>> THEN <<>>
  ELSE [i \in DOMAIN Head(session_logs)[2] |->
          [Head(session_logs)[2][i] EXCEPT !.source_type = Head(session_logs)[1]]]
       \o Gathered(Tail(session_logs))

ApiRelatedGathered ==
  SelectSeq(Gathered(unit.session_logs), IsApiRelatedLog)

\* what identifies an analyzed entry
EntryKey(id, source_type, timestamp) == <<id, source_type, timestamp>>

AnalyzedKeys ==
  [i \in DOMAIN unit.result.api_call_analysis |->
     EntryKey(unit.result.api_call_analysis[i].raw_log_id,
              unit.result.api_call_analysis[i].source_type,
              unit.result.api_call_analysis[i].timestamp)]

RelatedKeys ==
  [i \in DOMAIN ApiRelatedGathered |->
     EntryKey(ApiRelatedGathered[i].id, ApiRelatedGathered[i].source_type,
              ApiRelatedGathered[i].timestamp)]

Occurrences(keys, key) == Cardinality({i \in DOMAIN keys : keys[i] = key})

IsMockKey(key) == Head(key[1]) = "mock_log_"

InTimestampOrder(keys) ==
  \A i, j \in DOMAIN keys : i < j => keys[i][3] <= keys[j][3]

\* C27: when at least one gathered entry is API-related, the analyzed
\* entries are exactly the API-related entries, in timestamp order, and no
\* mock entry is analyzed; when none is, only generated mock entries are
\* analyzed; so every completed analysis covers at least one call.
C27_MockOnlyWithoutApiLogs ==
  MonitoringResult =>
    /\ Len(AnalyzedKeys) >= 1
    /\ InTimestampOrder(AnalyzedKeys)
    /\ IF ApiRelatedGathered # <<>>
       THEN /\ Len(AnalyzedKeys) = Len(RelatedKeys)
            /\ \A i \in DOMAIN RelatedKeys :
                 Occurrences(AnalyzedKeys, RelatedKeys[i])
                   = Occurrences(RelatedKeys, RelatedKeys[i])
            /\ \A i \in DOMAIN AnalyzedKeys : ~IsMockKey(AnalyzedKeys[i])
       ELSE \A i \in DOMAIN AnalyzedKeys : IsMockKey(AnalyzedKeys[i])

C27_Witness ==
  /\ MonitoringResult
  /\ Len(RelatedKeys) = 2
  /\ RelatedKeys[1][3] > RelatedKeys[2][3]
  /\ AnalyzedKeys = << RelatedKeys[2], RelatedKeys[1] >>

\* ------------------------------------------------------------------------
\* Properties of the analysis with JWT validation
\* ------------------------------------------------------------------------

\* the enhanced analysis returned, for a session whose insights summary
\* carries a session_score and whose JWT summary carries an overall_score
EnhancedAnalysisMade ==
  /\ unit.op = "_generate_enhanced_fraud_analysis"
  /\ unit.returned
  /\ ~unit.enhanced.raised
  /\ unit.monitoring.ai_insights.kind = "object"
  /\ unit.monitoring.ai_insights.scored
  /\ unit.jwt.has_summary

\* the AI insights the returned analysis carries, wherever it keeps them
InsightsOfAnalysis ==
  IF HasKey(unit.enhanced.analysis, "ai_insights")
  THEN Get(unit.enhanced.analysis, "ai_insights")
  ELSE Get(unit.enhanced.analysis, "monitoring_analysis").ai_insights

\* C28: the AI insights of the analysis _generate_enhanced_fraud_analysis
\* returns carry session_score = int(0.7 * original session score + 0.3 *
\* JWT overall_score) and jwt_validation_score = JWT overall_score, the
\* original score being the session_score of the AI insights summary of
\* the fraud monitoring analysis.
C28_SessionScoreIsWeighted ==
  EnhancedAnalysisMade =>
    /\ InsightsOfAnalysis.session_score
         = (7 * unit.monitoring.ai_insights.session_score
              + 3 * unit.jwt.overall_score) \div 10
    /\ "jwt_validation_score" \in DOMAIN InsightsOfAnalysis
    /\ InsightsOfAnalysis.jwt_validation_score = unit.jwt.overall_score

\* the execute_select call the last validate_order made
LastSelect ==
  ExecuteSelect(OrderQuery, OrderParams(call.order_number, call.location_code),
                db_reply)

\* the last execute_select call opened a connection
SelectOpenedConnection == Validated /\ select_calls = 1 /\ db_reply.fail # "connect"

\* C29: every execute_select call that opened a connection closes it, and
\* closes the cursor it created, before it returns or re-raises, on the
\* success path and when cursor creation, execute, reading the description
\* or fetch fails; no connection and no cursor is open after the call.
C29_ConnectionAndCursorClosed ==
  /\ open_connections = 0
  /\ open_cursors = 0
  /\ SelectOpenedConnection =>
       /\ LastSelect.connections_opened = 1
       /\ LastSelect.connections_closed = 1
       /\ LastSelect.cursors_closed = LastSelect.cursors_opened
       /\ LastSelect.cursors_opened = IF db_reply.fail = "cursor" THEN 0 ELSE 1
       /\ LastSelect.raised <=> db_reply.fail \in FailStages

C29_Witness ==
  /\ SelectOpenedConnection
  /\ db_reply.fail = "fetch"
  /\ LastSelect.raised
  /\ LastSelect.cursors_opened = 1
  /\ Len(sql_log) = 1

====
